---- MODULE Spec2Model ----
(***************************************************************************)
(* DOI-Navigator (src/doi_metadata_gui.py): identifier normalisation,      *)
(* batch de-duplication, the two-tier metadata resolver and the concurrent *)
(* batch fetcher, as a state machine.                                      *)
(*                                                                         *)
(* A Python str is a sequence of text pieces; "" is << >>.  An identifier  *)
(* is a sequence of single characters, so that strip(), lower() and        *)
(* startswith() work on it as they do in the code.                         *)
(***************************************************************************)
EXTENDS Integers, Sequences, FiniteSets, TLC

VARIABLES
    pc,          \* position of the script / of the function under test
    nx,          \* normalize_doi_input: the string given
    ny,          \* normalize_doi_input: the results of the successive applications
    dois_text,   \* run_original_app: the text area, as the lines splitlines() gives
    dois,        \* the list handed to fetch_parallel
    max_workers, \* fetch_parallel's max_workers argument
    net,         \* the responses the two endpoints may give in this run
    futs,        \* fetch_parallel: the submitted futures, in submission order
    entries,     \* fetch_parallel: the rows collected so far / returned
    cache,       \* st.cache_data of fetch_metadata_unified: identifier -> result
    resorted,    \* history: the final sort changed the order of entries
    cfg,         \* merge_enrich_fast: the MatchCfg given
    _USE_RAPIDFUZZ, \* the import of rapidfuzz succeeded
    wratio,      \* what fuzz.WRatio gives for the pairs of names of this run
    df,          \* merge_enrich_fast: the batch given
    jcr,         \* merge_enrich_fast: the impact table given
    scopus,      \* merge_enrich_fast: the indexing table given
    q_norm,      \* merge_enrich_fast: q, the normalized journal names of the batch
    imp,         \* merge_enrich_fast: impact factor per row
    qrt,         \* merge_enrich_fast: quartile per row
    wos,         \* merge_enrich_fast: Web of Science flag per row
    scp,         \* merge_enrich_fast: Scopus flag per row
    out_df,      \* merge_enrich_fast: out, the frame returned
    sheet,       \* the first sheet of the workbook a reader is given
    loaded,      \* what the reader returned or raised
    tcache,      \* st.cache_data of load_jcr_cached / load_scopus_cached: loader -> table
    arg,         \* the argument of the function called on its own
    ret,         \* what it returned, call after call
    tries,       \* session.get: what each attempt of the request got, in order
    retry,       \* session.get: total of the Retry object, the retries that remain
    got,         \* session.get: the response returned or the error raised
    ADMIN_PASS,  \* admin page: st.secrets.get("ADMIN_PASS", "")
    session_state, \* admin page: st.session_state of the browser session
    lt_cache,    \* admin page: st.cache_data of load_tables
    page,        \* admin page: the last run of the script, what it was given and did
    runs         \* admin page: the runs of the script so far

\* the state of merge_enrich_fast
evars == <<cfg, _USE_RAPIDFUZZ, wratio, df, jcr, scopus, q_norm, imp, qrt, wos, scp, out_df>>

\* the state of the readers and of their cache
lvars == <<sheet, loaded, tcache>>

\* the state of a function called on its own
xvars == <<arg, ret, tries, retry, got, ADMIN_PASS, session_state, lt_cache, page, runs>>

\* the state of the admin page
avars == <<ADMIN_PASS, session_state, lt_cache, page, runs>>

\* the state of a request through the session
gvars == <<tries, retry, got>>

\* the state of the normaliser, the script and fetch_parallel, pc apart
fvars == <<nx, ny, dois_text, dois, max_workers, net, futs, entries, cache, resorted>>

vars == <<pc, nx, ny, dois_text, dois, max_workers, net, futs, entries, cache, resorted,
          cfg, _USE_RAPIDFUZZ, wratio, df, jcr, scopus, q_norm, imp, qrt, wos, scp, out_df,
          sheet, loaded, tcache, arg, ret, tries, retry, got,
          ADMIN_PASS, session_state, lt_cache, page, runs>>

----------------------------------------------------------------------------
(* Bounds of the model. *)

\* longest input of the normaliser, in text pieces
MaxPieces == 3
\* how often the normaliser is re-applied to its own result
MaxApply == 2
\* most lines pasted into the text area
MaxLines == 3
\* most identifiers handed to fetch_parallel directly
MaxBatch == 3
\* largest max_workers tried
MaxWorkers == 2
\* most rows of the batch given to merge_enrich_fast
MaxRecords == 2
\* most rows of a reference table
MaxRefRows == 2
\* most columns of an indexing sheet
MaxColumns == 3
\* most author entries of a message
MaxAuthors == 2
\* the attempts of one request the model follows
MaxAttempts == 7
\* the runs of the admin page in one session
MaxRuns == 3

----------------------------------------------------------------------------
(* Strings. *)

Range(s) == {s[i] : i \in 1..Len(s)}

\* Body applied to the value of e, e being evaluated once
Bind(e, Body(_)) == CHOOSE r \in {Body(x) : x \in {e}} : TRUE

RECURSIVE Flatten(_)
Flatten(ss) == IF ss = << >> THEN << >> ELSE Head(ss) \o Flatten(Tail(ss))

\* str.isspace() for the characters of the model
IsSpace(c) == c \in {" ", "\t"}

\* str.lower() on one character (the upper-case letters the inputs use)
LowerChar(c) ==
    CASE c = "D" -> "d"
      [] c = "O" -> "o"
      [] c = "I" -> "i"
      [] c = "H" -> "h"
      [] c = "T" -> "t"
      [] c = "P" -> "p"
      [] c = "S" -> "s"
      [] c = "R" -> "r"
      [] c = "G" -> "g"
      [] c = "A" -> "a"
      [] c = "B" -> "b"
      [] c = "C" -> "c"
      [] c = "E" -> "e"
      [] OTHER -> c

Lower(s) == [i \in 1..Len(s) |-> LowerChar(s[i])]

RECURSIVE LStrip(_)
LStrip(s) == IF s # << >> /\ IsSpace(Head(s)) THEN LStrip(Tail(s)) ELSE s

RECURSIVE RStrip(_)
RStrip(s) ==
    IF s # << >> /\ IsSpace(s[Len(s)]) THEN RStrip(SubSeq(s, 1, Len(s) - 1)) ELSE s

\* str.strip()
Strip(s) == RStrip(LStrip(s))

\* str.startswith(p)
StartsWith(s, p) == Len(s) >= Len(p) /\ SubSeq(s, 1, Len(p)) = p

\* s[n:]
DropFirst(s, n) == SubSeq(s, n + 1, Len(s))

----------------------------------------------------------------------------
(* normalize_doi_input *)

PrefixHttps == <<"h","t","t","p","s",":","/","/","d","o","i",".","o","r","g","/">>
PrefixHttp  == <<"h","t","t","p",":","/","/","d","o","i",".","o","r","g","/">>
PrefixColon == <<"d","o","i",":">>
PrefixSpace == <<"d","o","i"," ">>

\* the tuple the for loop walks, in its order
DoiPrefixes == <<PrefixHttps, PrefixHttp, PrefixColon, PrefixSpace>>

\* the loop with its break: from prefix k on, cut the first prefix that low starts with
RECURSIVE CutFirstPrefix(_, _, _)
CutFirstPrefix(s, low, k) ==
    IF k > Len(DoiPrefixes) THEN s
    ELSE IF StartsWith(low, DoiPrefixes[k]) THEN DropFirst(s, Len(DoiPrefixes[k]))
    ELSE CutFirstPrefix(s, low, k + 1)

\* mutant: the result of the cut is returned untrimmed
NormalizeNoFinalStrip(s) ==
    LET t == Strip(s) IN CutFirstPrefix(t, Lower(t), 1)

\* mutant: the loop has no break, every prefix that matches in turn is cut
RECURSIVE CutAllPrefixes(_, _)
CutAllPrefixes(s, k) ==
    IF k > Len(DoiPrefixes) THEN s
    ELSE IF StartsWith(Lower(s), DoiPrefixes[k])
         THEN CutAllPrefixes(DropFirst(s, Len(DoiPrefixes[k])), k + 1)
         ELSE CutAllPrefixes(s, k + 1)

NormalizeNoBreak(s) == Strip(CutAllPrefixes(Strip(s), 1))

normalize_doi_input(s) ==
    LET t   == Strip(s)
        low == Lower(t)
    IN  Strip(CutFirstPrefix(t, low, 1))

----------------------------------------------------------------------------
(* Python / JSON values. *)

None == [tag |-> "None"]
PyStr(s) == [tag |-> "str", v |-> s]
PyInt(n) == [tag |-> "int", v |-> n]
PyList(l) == [tag |-> "list", v |-> l]
PyDict(d) == [tag |-> "dict", v |-> d]
EmptyStr == PyStr(<< >>)
EmptyDict == PyDict(<< >>)

\* bool(x)
Truthy(x) ==
    CASE x.tag = "None" -> FALSE
      [] x.tag = "int" -> x.v # 0
      [] x.tag = "dict" -> DOMAIN x.v # {}
      [] OTHER -> x.v # << >>

\* a or b
Or(a, b) == IF Truthy(a) THEN a ELSE b

\* d.get(k, default) on a dict value
Get(d, k, default) == IF k \in DOMAIN d.v THEN d.v[k] ELSE default

\* a raised exception, as a result
Raise(kind) == [exc |-> kind]
IsExc(x) == "exc" \in DOMAIN x

\* the exceptions of the model; every one is a subclass of Exception
ExceptionKinds ==
    {"ConnectionError", "RetryError", "HTTPError", "JSONDecodeError", "AttributeError",
     "KeyError", "TypeError"}

----------------------------------------------------------------------------
(* _first, _format_authors, _extract_fields_generic *)

_first(x) ==
    IF x.tag = "list" THEN (IF x.v # << >> THEN x.v[1] ELSE EmptyStr)
    ELSE Or(x, EmptyStr)

Letters ==
    {"a","b","c","d","e","f","g","h","i","j","k","l","m","n","o","p","q","r","s",
     "t","u","v","w","x","y","z","A","B","C","D","E","F","G","H","I","J","K","L",
     "M","N","O","P","Q","R","S","T","U","V","W","X","Y","Z"}

\* str.split(): the maximal runs of non-space characters
RECURSIVE SplitFrom(_, _)
SplitFrom(s, cur) ==
    IF s = << >> THEN (IF cur = << >> THEN << >> ELSE <<cur>>)
    ELSE IF IsSpace(Head(s))
         THEN (IF cur = << >> THEN << >> ELSE <<cur>>) \o SplitFrom(Tail(s), << >>)
         ELSE SplitFrom(Tail(s), Append(cur, Head(s)))

Split(s) == SplitFrom(s, << >>)

\* sep.join(parts)
RECURSIVE Join(_, _)
Join(sep, parts) ==
    IF parts = << >> THEN << >>
    ELSE IF Len(parts) = 1 THEN parts[1]
    ELSE parts[1] \o sep \o Join(sep, Tail(parts))

\* mutant: no token gets a period
FixInitialsNone(s) == Join(<<" ">>, Split(s))

fix_initials(s) ==
    LET tokens == Split(s)
        fixed  == [i \in 1..Len(tokens) |->
                     IF Len(tokens[i]) = 1 /\ tokens[i][1] \in Letters
                     THEN Append(tokens[i], ".") ELSE tokens[i]]
    IN  Join(<<" ">>, fixed)

\* (a.get(k) or ""): the value .strip() is then called on
GetOrEmpty(a, k) == Or(Get(a, k, None), EmptyStr)

\* the name one author entry contributes: a string, << >> for none, or an exception
AuthorName(a) ==
    LET g == GetOrEmpty(a, "given")
        f == GetOrEmpty(a, "family")
        l == Or(Get(a, "name", None), Or(Get(a, "literal", None), EmptyStr))
    IN  IF g.tag # "str" \/ f.tag # "str" \/ l.tag # "str" THEN Raise("AttributeError")
        ELSE LET given   == Strip(g.v)
                 family  == Strip(f.v)
                 literal == Strip(l.v)
             IN  IF given # << >> \/ family # << >>
                 THEN PyStr(Strip(fix_initials(given) \o <<" ">> \o family))
                 ELSE PyStr(literal)

\* the loop over the author entries: [parts] or the exception raised
RECURSIVE AuthorParts(_, _)
AuthorParts(authors, parts) ==
    IF authors = << >> THEN [parts |-> parts]
    ELSE LET a == Head(authors)
         IN  IF a.tag # "dict" THEN AuthorParts(Tail(authors), parts)
             ELSE LET name == AuthorName(a)
                  IN  IF IsExc(name) THEN name
                      ELSE IF name.v # << >>
                           THEN AuthorParts(Tail(authors), Append(parts, name.v))
                           ELSE AuthorParts(Tail(authors), parts)

_format_authors(msg) ==
    LET authors == Get(msg, "author", PyList(<< >>))
    IN  IF authors.tag # "list" THEN EmptyStr
        ELSE LET r == AuthorParts(authors.v, << >>)
             IN  IF IsExc(r) THEN r ELSE PyStr(Join(<<";", " ">>, r.parts))

\* the three date containers, in the order the loop tries them
YearKeys == <<"published-print", "issued", "published-online">>

\* one pass of the loop body: [hit, year] or an exception
YearAt(msg, key) ==
    LET obj == Get(msg, key, EmptyDict)
    IN  IF obj.tag # "dict" THEN [hit |-> FALSE, year |-> None]
        ELSE LET parts == Get(obj, "date-parts", PyList(<< >>))
             IN  IF ~Truthy(parts) THEN [hit |-> FALSE, year |-> None]
                 ELSE IF parts.tag = "dict" THEN Raise("KeyError")
                 ELSE IF parts.tag = "int" THEN Raise("TypeError")
                 ELSE IF parts.tag = "str" THEN [hit |-> FALSE, year |-> None]
                 ELSE IF parts.v[1].tag = "list" /\ parts.v[1].v # << >>
                      THEN [hit |-> TRUE, year |-> parts.v[1].v[1]]
                      ELSE [hit |-> FALSE, year |-> None]

RECURSIVE YearLoop(_, _)
YearLoop(msg, k) ==
    IF k > Len(YearKeys) THEN None
    ELSE LET r == YearAt(msg, YearKeys[k])
         IN  IF IsExc(r) THEN r
             ELSE IF r.hit THEN r.year
             ELSE YearLoop(msg, k + 1)

Digits == <<"0","1","2","3","4","5","6","7","8","9">>
DigitValue(c) == CHOOSE d \in 0..9 : Digits[d + 1] = c
IsDigit(c) == \E d \in 0..9 : Digits[d + 1] = c

RECURSIVE DigitsValue(_, _)
DigitsValue(s, acc) ==
    IF s = << >> THEN acc ELSE DigitsValue(Tail(s), 10 * acc + DigitValue(Head(s)))

\* int(s) for a str: surrounding space and one sign allowed; None stands for ValueError
ParseInt(s) ==
    LET t    == Strip(s)
        neg  == t # << >> /\ Head(t) = "-"
        body == IF t # << >> /\ Head(t) \in {"+", "-"} THEN Tail(t) ELSE t
    IN  IF body # << >> /\ \A i \in 1..Len(body) : IsDigit(body[i])
        THEN PyInt(IF neg THEN 0 - DigitsValue(body, 0) ELSE DigitsValue(body, 0))
        ELSE None

\* the decimal numeral of a number
RECURSIVE Numeral(_)
Numeral(n) == IF n < 10 THEN <<Digits[n + 1]>> ELSE Numeral(n \div 10) \o <<Digits[(n % 10) + 1]>>

\* str(x)[:4]
FirstFour(s) == SubSeq(s, 1, IF Len(s) < 4 THEN Len(s) ELSE 4)

\* the try block of the fallback: int(str(msg.get("created", {}).get("date-time", ""))[:4])
CreatedYear(msg) ==
    LET c == Get(msg, "created", EmptyDict)
    IN  IF c.tag # "dict" THEN None
        ELSE LET dt == Get(c, "date-time", EmptyStr)
             IN  IF dt.tag = "str" THEN ParseInt(FirstFour(dt.v))
                 ELSE IF dt.tag = "int" /\ dt.v >= 0 THEN ParseInt(FirstFour(Numeral(dt.v)))
                 ELSE None

\* mutant: the citation count is read whatever the source
ExtractCitesAlways(msg, source) == Get(msg, "is-referenced-by-count", None)

ExtractCites(msg, source) ==
    IF source = "crossref" THEN Get(msg, "is-referenced-by-count", None) ELSE None

\* the dict returned, or the exception raised
_extract_fields_generic(msg, source) ==
    IF msg.tag # "dict" THEN Raise("AttributeError")
    ELSE LET title     == _first(Get(msg, "title", None))
             journal   == _first(Get(msg, "container-title", None))
             publisher == Or(Get(msg, "publisher", EmptyStr),
                             Get(msg, "publisher-name", EmptyStr))
             loopYear  == YearLoop(msg, 1)
             authors   == _format_authors(msg)
         IN  IF IsExc(loopYear) THEN loopYear
             ELSE IF IsExc(authors) THEN authors
             ELSE [Title     |-> title,
                   Authors   |-> authors,
                   Journal   |-> journal,
                   Publisher |-> publisher,
                   Year      |-> IF Truthy(loopYear) THEN loopYear ELSE CreatedYear(msg),
                   Citations |-> ExtractCites(msg, source)]

----------------------------------------------------------------------------
(* The two endpoints: what a GET ends with, after the session's retries. *)

NotJson == [tag |-> "notjson"]
NetError == [net |-> "error"]
Http(status, body) == [net |-> "ok", status |-> status, body |-> body]
NoResponse == [net |-> "none"]

\* the exception session.get raised
RaisedBy(resp) == Raise(IF "why" \in DOMAIN resp THEN resp.why ELSE "ConnectionError")

\* r.raise_for_status() raises
IsErrorStatus(status) == status >= 400 /\ status < 600

\* r = session.get(...); r.raise_for_status(); r.json()
GetJson(resp) ==
    IF resp.net = "error" THEN RaisedBy(resp)
    ELSE IF IsErrorStatus(resp.status) THEN Raise("HTTPError")
    ELSE IF resp.body.tag = "notjson" THEN Raise("JSONDecodeError")
    ELSE resp.body

_crossref_fetch_raw(resp) ==
    LET j == GetJson(resp)
    IN  IF IsExc(j) THEN j
        ELSE IF j.tag # "dict" THEN Raise("AttributeError")
        ELSE Get(j, "message", EmptyDict)

_doi_content_negotiation(resp) == GetJson(resp)

----------------------------------------------------------------------------
(* fetch_metadata_unified *)

\* mutant: only an HTTP error status is caught
ExceptCatchesHttpOnly(kind) == kind = "HTTPError"

\* except Exception: what the two handlers catch
ExceptCatches(kind) == kind \in ExceptionKinds

\* data.get("Title") or data.get("Journal")
HasTitleOrJournal(data) == Truthy(data.Title) \/ Truthy(data.Journal)

\* mutant: the record is returned whatever it holds
AcceptAnyRecord(data) == TRUE

\* the test both tiers apply before returning a record
AcceptRecord(data) == HasTitleOrJournal(data)

\* the two error dicts
ErrorBothFailed(kind) ==
    [error |-> <<"Not found via ", "Crossref", "; ", "DOI content negotiation",
                 " also failed: ", kind>>]
ErrorNotAvailable ==
    [error |-> <<"Metadata not available from ", "Crossref", " or ",
                 "DOI content negotiation", ".">>]

\* what a step of the function ends with
Return(value) == [kind |-> "return", value |-> value]
FallThrough == [kind |-> "fall"]
Propagate(exc) == [kind |-> "raise", value |-> exc]

\* the first try block, given the registry's response
TryCrossref(resp) ==
    Bind(_crossref_fetch_raw(resp), LAMBDA msg :
        IF IsExc(msg)
        THEN (IF ExceptCatches(msg.exc) THEN FallThrough ELSE Propagate(msg))
        ELSE Bind(_extract_fields_generic(msg, "crossref"), LAMBDA data :
                IF IsExc(data)
                THEN (IF ExceptCatches(data.exc) THEN FallThrough ELSE Propagate(data))
                ELSE IF AcceptRecord(data) THEN Return(data) ELSE FallThrough))

\* the second try block and the last return, given the endpoint's response
TryCsl(resp) ==
    Bind(_doi_content_negotiation(resp), LAMBDA csl :
        IF IsExc(csl)
        THEN (IF ExceptCatches(csl.exc) THEN Return(ErrorBothFailed(csl.exc))
              ELSE Propagate(csl))
        ELSE Bind(_extract_fields_generic(csl, "csl"), LAMBDA data :
                IF IsExc(data)
                THEN (IF ExceptCatches(data.exc) THEN Return(ErrorBothFailed(data.exc))
                      ELSE Propagate(data))
                ELSE IF AcceptRecord(data) THEN Return(data)
                ELSE Return(ErrorNotAvailable)))

\* "error" in data
IsErrorDict(data) == "error" \in DOMAIN data

----------------------------------------------------------------------------
(* Inputs of the model. *)

\* every sequence over S of length lo..hi
SeqsUpTo(S, lo, hi) == UNION {[1..n -> S] : n \in lo..hi}

IdA == <<"1","0",".","1","/","a">>
IdB == <<"1","0",".","1","/","b">>
IdAB == <<"1","0",".","1","/","a","b">>

\* the pieces the normaliser's inputs are built from
NormPieces ==
    {PrefixHttps, PrefixColon, PrefixSpace, <<"D","O","I",":">>,
     <<"H","t","t","p",":","/","/","D","O","I",".","o","r","g","/">>, <<" ">>, IdAB}

NormInputs == {Flatten(ps) : ps \in SeqsUpTo(NormPieces, 0, MaxPieces)}

\* the lines a user pastes
LinePool == {IdA, IdB, <<" ","D","O","I",":">> \o IdA \o <<" ">>, <<" ">>}

\* the identifiers fetch_parallel is called with directly
IdPool == {IdA, IdB, IdAB}

Smith == <<"S","m","i","t","h">>

MsgFull ==
    PyDict(("title" :> PyList(<<PyStr(<<"T">>)>>))
        @@ ("container-title" :> PyList(<<PyStr(<<"J">>)>>))
        @@ ("publisher" :> PyStr(<<"P">>))
        @@ ("author" :> PyList(<<PyDict(("given" :> PyStr(<<"J">>))
                                     @@ ("family" :> PyStr(Smith)))>>))
        @@ ("issued" :> PyDict("date-parts" :> PyList(<<PyList(<<PyInt(2020)>>)>>)))
        @@ ("is-referenced-by-count" :> PyInt(7)))

MsgJournalOnly ==
    PyDict(("container-title" :> PyStr(<<"J">>))
        @@ ("is-referenced-by-count" :> PyInt(3)))

MsgBlankTitle == PyDict("title" :> PyList(<<EmptyStr>>))

MsgEmpty == EmptyDict

\* a title, and an author whose given name is a number: .strip() raises
MsgBadAuthor ==
    PyDict(("title" :> PyStr(<<"T">>))
        @@ ("author" :> PyList(<<PyDict("given" :> PyInt(5))>>)))

\* a title, and a date container whose date-parts is an object: parts[0] raises
MsgBadDate ==
    PyDict(("title" :> PyStr(<<"T">>))
        @@ ("issued" :> PyDict("date-parts" :> PyDict("0" :> PyInt(2020)))))

Msgs == {MsgFull, MsgJournalOnly, MsgBlankTitle, MsgEmpty, MsgBadAuthor, MsgBadDate}

Envelope(msg) == PyDict("message" :> msg)

FailedResponses == {NetError, Http(404, NotJson), Http(200, NotJson), Http(200, PyList(<< >>))}

\* every way the two GETs can end
FullNet ==
    [crossref |-> FailedResponses \cup {Http(200, EmptyDict)}
                    \cup {Http(200, Envelope(m)) : m \in Msgs},
     csl      |-> FailedResponses \cup {Http(200, m) : m \in Msgs}]

\* the responses of the runs with several identifiers
BatchNet ==
    [crossref |-> {NetError, Http(200, Envelope(MsgFull))},
     csl      |-> {NetError, Http(200, MsgEmpty), Http(200, MsgFull)}]

\* the responses of the runs that call fetch_parallel directly
DirectNet ==
    [crossref |-> {NetError, Http(200, Envelope(MsgFull))},
     csl      |-> {NetError}]

\* the values of max_workers tried, from lo on
WorkerChoices(lo) == lo..(IF MaxWorkers < lo THEN lo ELSE MaxWorkers)

----------------------------------------------------------------------------
(* run_original_app: the identifiers read from the text area. *)

\* [d for d in dois_text.splitlines() if d.strip()]
RECURSIVE NonBlank(_)
NonBlank(lines) ==
    IF lines = << >> THEN << >>
    ELSE IF Strip(Head(lines)) # << >> THEN <<Head(lines)>> \o NonBlank(Tail(lines))
    ELSE NonBlank(Tail(lines))

\* list(dict.fromkeys(keys)), continued from the keys already kept
RECURSIVE DictFromKeys(_, _)
DictFromKeys(keys, kept) ==
    IF keys = << >> THEN kept
    ELSE IF Head(keys) \in Range(kept) THEN DictFromKeys(Tail(keys), kept)
    ELSE DictFromKeys(Tail(keys), Append(kept, Head(keys)))

\* mutant: a key seen again moves to the end (the last occurrence decides the place)
RECURSIVE KeepLastOccurrence(_)
KeepLastOccurrence(keys) ==
    IF keys = << >> THEN << >>
    ELSE IF Head(keys) \in Range(Tail(keys)) THEN KeepLastOccurrence(Tail(keys))
    ELSE <<Head(keys)>> \o KeepLastOccurrence(Tail(keys))

\* mutant: the last occurrence of a key decides its place
DedupKeepLast(lines) ==
    LET raw == NonBlank(lines)
    IN  KeepLastOccurrence([i \in 1..Len(raw) |-> normalize_doi_input(raw[i])])

\* the list dois of the script
DedupDois(lines) ==
    LET raw == NonBlank(lines)
    IN  DictFromKeys([i \in 1..Len(raw) |-> normalize_doi_input(raw[i])], << >>)

----------------------------------------------------------------------------
(* fetch_parallel *)

\* 10**9, the sort key of an identifier that order does not hold
OrderDefault == 1000000000

\* mutant: the first place of an identifier is kept
OrderOfFirst(ds, d) ==
    IF d \in Range(ds)
    THEN (CHOOSE i \in 1..Len(ds) : ds[i] = d /\ \A j \in 1..(i - 1) : ds[j] # d) - 1
    ELSE 1000000000

\* order = {d: i for i, d in enumerate(dois)}: a later place overwrites an earlier one
OrderOf(ds, d) ==
    IF d \in Range(ds)
    THEN (CHOOSE i \in 1..Len(ds) : ds[i] = d /\ \A j \in (i + 1)..Len(ds) : ds[j] # d) - 1
    ELSE OrderDefault

\* list.sort(key=...) is stable: e goes behind the rows whose key is not larger
RECURSIVE InsertByKey(_, _, _)
InsertByKey(sorted, e, ds) ==
    IF sorted = << >> THEN <<e>>
    ELSE IF OrderOf(ds, Head(sorted).DOI.v) <= OrderOf(ds, e.DOI.v)
         THEN <<Head(sorted)>> \o InsertByKey(Tail(sorted), e, ds)
         ELSE <<e>> \o sorted

RECURSIVE SortFrom(_, _, _)
SortFrom(es, sorted, ds) ==
    IF es = << >> THEN sorted
    ELSE SortFrom(Tail(es), InsertByKey(sorted, Head(es), ds), ds)

\* mutant: the rows are returned as collected
NoSort(es, ds) == es

\* entries.sort(key=lambda e: order.get(e["DOI"], 10**9))
SortEntries(es, ds) == SortFrom(es, << >>, ds)

\* min(max_workers, max(1, len(dois)))
\* mutant: one thread per identifier, whatever max_workers
PoolSizeOfBatch(mw, ds) == IF Len(ds) < 1 THEN 1 ELSE Len(ds)

PoolSize(mw, ds) ==
    LET n == IF Len(ds) < 1 THEN 1 ELSE Len(ds)
    IN  IF mw < n THEN mw ELSE n

\* mutant: an error result gets no row
ErrorEntryDropped(doi, data) == << >>

\* the row of an error result
ErrorEntry(doi, data) ==
    <<[DOI       |-> PyStr(doi),
       Title     |-> PyStr(<<"[ERROR] ">> \o data.error),
       Authors   |-> EmptyStr,
       Journal   |-> EmptyStr,
       Publisher |-> EmptyStr,
       Year      |-> None,
       Citations |-> None]>>

\* the rows one future's result adds to entries
EntryOf(doi, data) ==
    IF IsErrorDict(data) THEN ErrorEntry(doi, data)
    ELSE <<[DOI |-> PyStr(doi)] @@ data>>

NewFuture(doi) ==
    [doi |-> doi, st |-> "queued", log |-> << >>, r1 |-> NoResponse, r2 |-> NoResponse,
     result |-> None]

\* mutant: the rows are labelled with the identifiers in submission order, as the
\* results arrive
DoiInSubmissionOrder(fs, i) ==
    fs[Cardinality({j \in 1..Len(fs) : fs[j].st = "collected"}) + 1].doi

\* doi = futs[fut]: the identifier the future was submitted with
DoiOfFuture(fs, i) == fs[i].doi

Running(i) == futs[i].st \in {"lookup", "crossref", "csl"}
Settled(i) == futs[i].st \in {"finished", "collected"}

\* the function has returned value: st.cache_data stores it
Finish(i, value, q, resp) ==
    /\ futs' = [futs EXCEPT ![i].st = "finished", ![i].result = value,
                            ![i].log = IF q = "none" THEN @ ELSE Append(@, q),
                            ![i].r1 = IF q = "crossref" THEN resp ELSE @,
                            ![i].r2 = IF q = "csl" THEN resp ELSE @]
    /\ cache' = [d \in DOMAIN cache \cup {futs[i].doi} |->
                   IF d = futs[i].doi THEN value ELSE cache[d]]

\* the function has raised: nothing is stored
Fail(i, exc, q, resp) ==
    /\ futs' = [futs EXCEPT ![i].st = "finished", ![i].result = exc,
                            ![i].log = IF q = "none" THEN @ ELSE Append(@, q),
                            ![i].r1 = IF q = "crossref" THEN resp ELSE @,
                            ![i].r2 = IF q = "csl" THEN resp ELSE @]
    /\ cache' = cache

\* mutant: the stored results are never used
CacheNeverHit(c, doi) == FALSE

\* st.cache_data has a result for this argument
CacheHit(c, doi) == doi \in DOMAIN c

\* mutant: the second endpoint is queried whatever the first try block gave
NeedsCslAlways(out) == out.kind # "raise"

\* the first try block neither returned nor raised: the function goes on to the second
NeedsCsl(out) == out.kind = "fall"

----------------------------------------------------------------------------
(* normalize_journal *)

JournalPunctuation == {",", ".", ":", ";", "(", ")", "[", "]"}

\* what replace("&", "and") and the replace(ch, " ") loop make of one character
ReplaceChar(c) ==
    IF c = "&" THEN <<"a", "n", "d">>
    ELSE IF c \in JournalPunctuation THEN <<" ">>
    ELSE <<c>>

\* mutant: the runs of spaces are kept
NormalizeJournalNoCollapse(x) ==
    IF x.tag # "str" THEN << >>
    ELSE Flatten([i \in 1..Len(x.v) |-> ReplaceChar(LowerChar(x.v[i]))])

\* the normalized name of a cell: "" for a cell that is not a str (NaN, a number)
normalize_journal(x) ==
    IF x.tag # "str" THEN << >>
    ELSE Join(<<" ">>,
              Split(Flatten([i \in 1..Len(x.v) |-> ReplaceChar(LowerChar(x.v[i]))])))

\* Series.fillna(""): a missing cell becomes ""
FillNa(x) == IF x = None THEN EmptyStr ELSE x

\* Series.astype(str) on one cell: a number becomes its numeral
AsStr(x) == IF x.tag = "int" THEN PyStr(Numeral(x.v)) ELSE x

\* q: the normalized name of a Journal cell of the batch
QueryNorm(x) == normalize_journal(AsStr(FillNa(x)))

----------------------------------------------------------------------------
(* difflib: SequenceMatcher.ratio() and get_close_matches(), for strings   *)
(* without junk (autojunk starts at 200 characters).  Positions are        *)
(* 0-based and ranges half-open, as in the library.                        *)

\* the blocks a[i:i+k] = b[j:j+k], k > 0, inside a[alo:ahi] and b[blo:bhi]
Blocks(a, b, alo, ahi, blo, bhi) ==
    {t \in (alo..(ahi - 1)) \X (blo..(bhi - 1)) \X (1..(ahi - alo)) :
        /\ t[1] + t[3] <= ahi
        /\ t[2] + t[3] <= bhi
        /\ \A d \in 0..(t[3] - 1) : a[t[1] + d + 1] = b[t[2] + d + 1]}

\* the longest block; of those, the one starting earliest in a; of those, earliest
\* in b; (alo, blo, 0) when no block matches
find_longest_match(a, b, alo, ahi, blo, bhi) ==
    Bind(Blocks(a, b, alo, ahi, blo, bhi),
         LAMBDA bs : IF bs = {} THEN <<alo, blo, 0>>
                     ELSE CHOOSE t \in bs : \A u \in bs :
                        \/ u[3] < t[3]
                        \/ u[3] = t[3] /\ t[1] < u[1]
                        \/ u[3] = t[3] /\ t[1] = u[1] /\ t[2] <= u[2])

\* the total size of get_matching_blocks(): the longest block, then the same to
\* its left and to its right
RECURSIVE MatchedChars(_, _, _, _, _, _)
MatchedChars(a, b, alo, ahi, blo, bhi) ==
    IF alo >= ahi \/ blo >= bhi THEN 0
    ELSE Bind(find_longest_match(a, b, alo, ahi, blo, bhi),
              LAMBDA t : IF t[3] = 0 THEN 0
                         ELSE t[3] + MatchedChars(a, b, alo, t[1], blo, t[2])
                                   + MatchedChars(a, b, t[1] + t[3], ahi, t[2] + t[3], bhi))

\* ratio() as the fraction num/den: 2.0 * matches / (len(a) + len(b)), 1.0 for two
\* empty strings
ratio(a, b) ==
    IF Len(a) + Len(b) = 0 THEN [num |-> 1, den |-> 1]
    ELSE [num |-> 2 * MatchedChars(a, b, 0, Len(a), 0, Len(b)), den |-> Len(a) + Len(b)]

\* int(100 * ratio): the integer part (exact for the lengths of the model)
DifflibScore(a, b) == Bind(ratio(a, b), LAMBDA r : (100 * r.num) \div r.den)

\* the order of the characters of the names
CharRank(c) ==
    CASE c = " " -> 0
      [] c = "a" -> 1
      [] c = "b" -> 2
      [] c = "c" -> 3
      [] c = "d" -> 4
      [] c = "n" -> 5
      [] OTHER -> 6

\* a < b for two str
RECURSIVE StrLess(_, _)
StrLess(a, b) ==
    IF b = << >> THEN FALSE
    ELSE IF a = << >> THEN TRUE
    ELSE IF Head(a) = Head(b) THEN StrLess(Tail(a), Tail(b))
    ELSE CharRank(Head(a)) < CharRank(Head(b))

\* (r1, x1) < (r2, x2) for the (ratio, string) pairs get_close_matches ranks
PairLess(r1, x1, r2, x2) ==
    \/ r1.num * r2.den < r2.num * r1.den
    \/ r1.num * r2.den = r2.num * r1.den /\ StrLess(x1, x2)

\* get_close_matches(word, possibilities, n=1, cutoff=0.0): the possibility x with
\* the largest (SequenceMatcher(a=x, b=word).ratio(), x), in a list
get_close_matches(word, possibilities) ==
    IF possibilities = << >> THEN << >>
    ELSE Bind([k \in 1..Len(possibilities) |-> ratio(possibilities[k], word)],
              LAMBDA rs : LET best == CHOOSE k \in 1..Len(possibilities) :
                                        \A j \in 1..Len(possibilities) :
                                          ~PairLess(rs[k], possibilities[k],
                                                    rs[j], possibilities[j])
                          IN <<possibilities[best]>>)

\* list.index(x)
IndexOf(xs, x) == CHOOSE k \in 1..Len(xs) : xs[k] = x /\ \A j \in 1..(k - 1) : xs[j] # x

----------------------------------------------------------------------------
(* merge_enrich_fast *)

PyBool(b) == [tag |-> "bool", v |-> b]
PyTrue == PyBool(TRUE)
PyFalse == PyBool(FALSE)

\* frame["__norm"].tolist()
NormColumn(frame) == [k \in 1..Len(frame) |-> frame[k].norm]

\* fuzz.WRatio: 0 when a string is empty, 100 for equal strings, else what the
\* library gives for the pair
WRatio(table, a, b) ==
    IF a = << >> \/ b = << >> THEN 0
    ELSE IF a = b THEN 100
    ELSE table[<<a, b>>]

\* one row of process.cdist(q, choices, scorer=fuzz.WRatio)
ScoreRow(table, name, choices) == [k \in 1..Len(choices) |-> WRatio(table, name, choices[k])]

\* max(axis=1) of one row
RowMax(row) == CHOOSE s \in Range(row) : \A u \in Range(row) : u <= s

\* mutant: the last position of the maximum
ArgMaxLast(row) ==
    CHOOSE k \in 1..Len(row) :
        row[k] = RowMax(row) /\ \A j \in (k + 1)..Len(row) : row[j] # RowMax(row)

\* argmax(axis=1) of one row: the first position of the maximum
ArgMax(row) == CHOOSE k \in 1..Len(row) : row[k] = RowMax(row) /\ \A j \in 1..(k - 1) : row[j] # RowMax(row)

\* mutant: a score equal to the threshold is rejected
AboveThreshold(score, min_score) == score > min_score

\* the comparison of a score with the threshold
MeetsThreshold(score, min_score) == score >= min_score

\* the impact-table row the matrix path gives a name, 0 for none
JcrRowRapid(table, name, choices, min_score) ==
    Bind(ScoreRow(table, name, choices),
         LAMBDA row : IF MeetsThreshold(RowMax(row), min_score) THEN ArgMax(row) ELSE 0)

\* the impact-table row the difflib path gives a name, 0 for none
JcrRowDifflib(name, choices, min_score) ==
    IF name = << >> THEN 0
    ELSE Bind(get_close_matches(name, choices),
              LAMBDA match :
                 IF match = << >> THEN 0
                 ELSE IF MeetsThreshold(DifflibScore(name, match[1]), min_score)
                      THEN IndexOf(choices, match[1])
                      ELSE 0)

\* the impact-table row attached to a name, 0 for none
JcrRow(rapid, table, name, frame, min_score) ==
    IF frame = << >> THEN 0
    ELSE IF rapid THEN JcrRowRapid(table, name, NormColumn(frame), min_score)
    ELSE JcrRowDifflib(name, NormColumn(frame), min_score)

\* mutant: the default is False whatever the configuration
WosDefaultFalse(c) == PyFalse

\* wos[i] before the impact stage
WosDefault(c) == IF c.wos_if_missing THEN PyFalse ELSE None

\* mutant: a match leaves the flag as it was
WosOfMatchKept(c, before) == before

\* wos[i] of a row that got an impact-table row
WosOfMatch(c, before) == IF c.wos_if_missing THEN PyTrue ELSE before

\* scp[i] after the exact stage
ScopusExact(c, name, frame) ==
    PyBool(frame # << >> /\ c.scopus_exact_first /\ name \in Range(NormColumn(frame)))

\* the matrix path of the fuzzy stage says the name is indexed
ScopusFuzzyRapid(table, name, choices, min_score) ==
    MeetsThreshold(RowMax(ScoreRow(table, name, choices)), min_score)

\* the difflib path of the fuzzy stage says the name is indexed
ScopusFuzzyDifflib(name, choices, min_score) ==
    Bind(get_close_matches(name, choices),
         LAMBDA match : /\ match # << >>
                        /\ MeetsThreshold(DifflibScore(name, match[1]), min_score))

\* mutant: the fuzzy stage decides every row again
ScopusFuzzyResets(rapid, table, c, name, frame, flag) ==
    IF frame = << >> THEN flag
    ELSE IF rapid THEN PyBool(ScopusFuzzyRapid(table, name, NormColumn(frame), c.min_score))
    ELSE PyBool(ScopusFuzzyDifflib(name, NormColumn(frame), c.min_score))

\* scp[i] after the fuzzy stage, flag being scp[i] after the exact stage
ScopusFuzzy(rapid, table, c, name, frame, flag) ==
    IF frame = << >> \/ flag.v THEN flag
    ELSE IF rapid THEN PyBool(ScopusFuzzyRapid(table, name, NormColumn(frame), c.min_score))
    ELSE PyBool(ScopusFuzzyDifflib(name, NormColumn(frame), c.min_score))

\* out = df.copy() with the four columns added
Assemble(frame, imps, qrts, scps, woss) ==
    [i \in 1..Len(frame) |->
        frame[i] @@ [ImpactFactorJCR |-> imps[i], QuartileJCR |-> qrts[i],
                     IndexedInScopus |-> scps[i], IndexedInWoS |-> woss[i]]]

----------------------------------------------------------------------------
(* Inputs of merge_enrich_fast. *)

\* Journal cells of the batch: "" (an error row, a record without journal), "Ab", "bca"
BatchJournals == {EmptyStr, PyStr(<<"A", "b">>), PyStr(<<"b", "c", "a">>)}

\* title cells of a reference sheet: a blank cell (NaN), "ab.", "aba"
RefTitles == {None, PyStr(<<"a", "b", ".">>), PyStr(<<"a", "b", "a">>)}

\* thresholds inside the slider's range: int(100 * ratio) is 66 for "bca"/"aba" and 80
\* for "ab"/"aba"
MinScores == {66, 80, 95}

\* scores fuzz.WRatio may give two different non-empty names
WScores == {50, 80}

RecordIds == <<IdA, IdB, IdAB, IdA \o IdB>>
Digit == <<"1", "2", "3", "4">>

\* the batch pd.DataFrame(rows) makes of rows with these Journal cells
BatchFrame(journals) ==
    [k \in 1..Len(journals) |->
        [DOI |-> PyStr(RecordIds[k]), Title |-> PyStr(<<"T", Digit[k]>>),
         Journal |-> journals[k]]]

\* the impact table read_jcr makes of a sheet with these journal cells
JcrFrame(titles) ==
    [k \in 1..Len(titles) |->
        [Journal |-> titles[k], Impact |-> PyInt(k), Quartile |-> PyStr(<<"Q", Digit[k]>>),
         norm |-> normalize_journal(titles[k])]]

\* the indexing table read_scopus_titles makes of a sheet with these title cells
ScopusFrame(titles) ==
    [k \in 1..Len(titles) |-> [Title |-> titles[k], norm |-> normalize_journal(titles[k])]]

\* the pairs of different non-empty names fuzz.WRatio is asked about in a run
ScoredPairs(batch, frames) ==
    {p \in {QueryNorm(batch[i].Journal) : i \in 1..Len(batch)}
           \X UNION {Range(NormColumn(frames[k])) : k \in 1..Len(frames)} :
        p[1] # << >> /\ p[2] # << >> /\ p[1] # p[2]}

\* the title cells of the second table of a run
OtherSheet == <<PyStr(<<"a", "b", ".">>)>>

MatchCfgs ==
    [min_score : MinScores, wos_if_missing : BOOLEAN, scopus_exact_first : BOOLEAN]

\* an author entry with the fields given: << >> stands for a missing field
AuthorEntry(given, family, name, literal) ==
    LET fields == ("given" :> given) @@ ("family" :> family)
                     @@ ("name" :> name) @@ ("literal" :> literal)
    IN  PyDict([key \in {k \in DOMAIN fields : fields[k] # << >>} |-> fields[key][1]])

\* given names: missing, "J", "Jane", "J 5"
GivenShapes ==
    {<< >>, <<PyStr(<<"J">>)>>, <<PyStr(<<"J", "a", "n", "e">>)>>,
     <<PyStr(<<"J", " ", "5">>)>>}

\* family names: missing, "Smith", " "
FamilyShapes == {<< >>, <<PyStr(Smith)>>, <<PyStr(<<" ">>)>>}

Acme == <<"A", "C", "M", "E">>
Lit == <<"L", "i", "t">>

\* the author entries: every given and family name beside the name "ACME"; a literal
\* only; an empty name beside a literal; an empty entry; an entry that is a str; a
\* given name that is a number
AuthorEntries ==
    {AuthorEntry(g, f, <<PyStr(Acme)>>, << >>) : g \in GivenShapes, f \in FamilyShapes}
        \cup {AuthorEntry(<< >>, << >>, << >>, <<PyStr(Lit)>>),
              AuthorEntry(<< >>, << >>, <<EmptyStr>>, <<PyStr(Lit)>>),
              EmptyDict, PyStr(Acme),
              AuthorEntry(<<PyInt(5)>>, <<PyStr(Smith)>>, << >>, << >>)}

\* the messages the authors are formatted from
AuthorMsgs ==
    {PyDict("author" :> PyList(l)) : l \in SeqsUpTo(AuthorEntries, 0, MaxAuthors)}
        \cup {EmptyDict, PyDict("author" :> PyStr(Acme))}

\* what a date container of a message may be: missing, date-parts [[year]], [[null]],
\* [[]], date-parts an object, the container a str
DateShapes(year) ==
    {<< >>,
     <<PyDict("date-parts" :> PyList(<<PyList(<<PyInt(year)>>)>>))>>,
     <<PyDict("date-parts" :> PyList(<<PyList(<<None>>)>>))>>,
     <<PyDict("date-parts" :> PyList(<<PyList(<< >>)>>))>>,
     <<PyDict("date-parts" :> PyDict("0" :> PyInt(year)))>>,
     <<PyStr(<<"2","0","1","7">>)>>}

\* what "created" may be: missing, a timestamp of 2019, a text, the number 20181231,
\* a str instead of an object
CreatedShapes ==
    {<< >>,
     <<PyDict("date-time" :> PyStr(<<"2","0","1","9","-","0","3","-","0","1">>))>>,
     <<PyDict("date-time" :> PyStr(<<"n","/","a">>))>>,
     <<PyDict("date-time" :> PyInt(20181231))>>,
     <<PyStr(<<"2","0","1","6">>)>>}

\* the message with the fields given: << >> stands for a missing field
DatedMsg(print, issued, online, created) ==
    LET fields == ("published-print" :> print) @@ ("issued" :> issued)
                     @@ ("published-online" :> online) @@ ("created" :> created)
    IN  PyDict([key \in {k \in DOMAIN fields : fields[k] # << >>} |-> fields[key][1]])

\* the messages the year is extracted from
DatedMsgs ==
    {DatedMsg(p, i, o, c) : p \in DateShapes(2021), i \in DateShapes(2020),
                            o \in DateShapes(2022), c \in CreatedShapes}

\* Journal cells of the batches that rank several impact-table rows: "aaba", "Ab"
RankedJournals == {PyStr(<<"a", "a", "b", "a">>), PyStr(<<"A", "b">>)}

\* journal cells of the impact table they are ranked against: "ab", "ba", "baaa".
\* difflib gives "aaba" the ratio 2/3 with "ab" and with "ba" in both directions, and
\* with "baaa" 3/4 as SequenceMatcher(None, "aaba", "baaa") and 1/2 the other way round
RankedTitles ==
    {PyStr(<<"a", "b">>), PyStr(<<"b", "a">>), PyStr(<<"b", "a", "a", "a">>)}

\* the characters the names given to normalize_journal on its own are made of
JournalChars == {"A", "b", "&", ".", "(", " ", "\t"}

\* "IEEE Trans. on Computers" and "ieee trans on computers"
IeeeTitled ==
    <<"I","E","E","E"," ","T","r","a","n","s","."," ","o","n"," ",
      "C","o","m","p","u","t","e","r","s">>
IeeePlain ==
    <<"i","e","e","e"," ","t","r","a","n","s"," ","o","n"," ",
      "c","o","m","p","u","t","e","r","s">>

\* the cells normalize_journal is given on its own: names, a blank cell, a number
JournalCells ==
    {PyStr(n) : n \in SeqsUpTo(JournalChars, 0, MaxPieces)}
        \cup {PyStr(IeeeTitled), PyStr(IeeePlain), None, PyInt(5)}

----------------------------------------------------------------------------
(* read_jcr, _pick_scopus_title_col, read_scopus_titles.  A sheet as       *)
(* pd.read_excel gives it: columns with a header and a dtype, rows of      *)
(* cells.                                                                  *)

\* df.shape[1] below which read_jcr raises
JcrMinColumns == 17
\* df.columns[1], df.columns[12], df.columns[16]
JournalPos == 1
ImpactPos == 12
QuartilePos == 16

Width(sh) == Len(sh.columns)

\* df[[col]] for the column at a 0-based position: the cells of that column
ColumnAt(sh, pos) == [r \in 1..Len(sh.rows) |-> sh.rows[r][pos + 1]]

\* mutant: a narrow sheet gives the table of the columns it has
ReadJcrLenient(sh) ==
    [table |->
      [r \in 1..Len(sh.rows) |->
        [Journal  |-> IF JournalPos < Width(sh) THEN ColumnAt(sh, JournalPos)[r] ELSE None,
         Impact   |-> IF ImpactPos < Width(sh) THEN ColumnAt(sh, ImpactPos)[r] ELSE None,
         Quartile |-> IF QuartilePos < Width(sh) THEN ColumnAt(sh, QuartilePos)[r] ELSE None,
         norm     |-> IF JournalPos < Width(sh)
                      THEN normalize_journal(ColumnAt(sh, JournalPos)[r]) ELSE << >>]]]

\* the table returned, or the ValueError raised
read_jcr(sh) ==
    IF Width(sh) < JcrMinColumns THEN Raise("ValueError")
    ELSE [table |->
            [r \in 1..Len(sh.rows) |->
                [Journal  |-> ColumnAt(sh, JournalPos)[r],
                 Impact   |-> ColumnAt(sh, ImpactPos)[r],
                 Quartile |-> ColumnAt(sh, QuartilePos)[r],
                 norm     |-> normalize_journal(ColumnAt(sh, JournalPos)[r])]]]

\* _SCOPUS_TITLE_LIKELY, in the order the source writes its elements
_SCOPUS_TITLE_LIKELY ==
    <<<<"s","o","u","r","c","e"," ","t","i","t","l","e">>,
      <<"t","i","t","l","e">>,
      <<"j","o","u","r","n","a","l">>,
      <<"p","u","b","l","i","c","a","t","i","o","n"," ","t","i","t","l","e">>,
      <<"f","u","l","l"," ","t","i","t","l","e">>,
      <<"j","o","u","r","n","a","l"," ","t","i","t","l","e">>,
      <<"j","o","u","r","n","a","l"," ","n","a","m","e">>,
      <<"s","c","o","p","u","s"," ","t","i","t","l","e">>,
      <<"s","c","o","p","u","s"," ","s","o","u","r","c","e"," ","t","i","t","l","e">>>>

\* c.lower().strip()
HeaderKey(name) == Strip(Lower(name))

\* cols = {c.lower().strip(): c for c in df.columns}: the last column of a key
\* (positions here are 1-based)
ColsOfKey(sh, key) ==
    CHOOSE c \in 1..Width(sh) :
        /\ HeaderKey(sh.columns[c].name) = key
        /\ \A d \in (c + 1)..Width(sh) : HeaderKey(sh.columns[d].name) # key

ColsKeys(sh) == {HeaderKey(sh.columns[c].name) : c \in 1..Width(sh)}

\* the columns the loop over the set may return: the set is iterated in the order
\* of the hashes of its strings, which differs from one interpreter process to the
\* next, so any key of the set that is in cols may come first
LikelyColumns(sh) == {ColsOfKey(sh, key) : key \in Range(_SCOPUS_TITLE_LIKELY) \cap ColsKeys(sh)}

\* the first column of object dtype, or the first column
FallbackColumn(sh) ==
    IF \E c \in 1..Width(sh) : sh.columns[c].dtype = "object"
    THEN CHOOSE c \in 1..Width(sh) :
            /\ sh.columns[c].dtype = "object"
            /\ \A d \in 1..(c - 1) : sh.columns[d].dtype # "object"
    ELSE 1

\* the columns _pick_scopus_title_col may return
_pick_scopus_title_col(sh) ==
    IF LikelyColumns(sh) # {} THEN LikelyColumns(sh) ELSE {FallbackColumn(sh)}

\* the table read_scopus_titles makes with the column picked
read_scopus_titles(sh, title_col) ==
    [title_col |-> title_col,
     table |-> [r \in 1..Len(sh.rows) |->
                  [Title |-> sh.rows[r][title_col],
                   norm |-> normalize_journal(sh.rows[r][title_col])]]]

\* headers of an impact sheet: named columns, or the names pandas gives blank headers
HeaderStyles == {"named", "unnamed"}
HeaderName(style, c) ==
    IF style = "named" THEN <<"C", "o", "l", " ">> \o Numeral(c)
    ELSE <<"U", "n", "n", "a", "m", "e", "d", ":", " ">> \o Numeral(c - 1)

\* an impact sheet of w columns with these journal cells; row r has impact factor r
\* and quartile Qr, every other cell is a number telling its column
JcrSheet(w, style, titles) ==
    [columns |-> [c \in 1..w |-> [name |-> HeaderName(style, c),
                                  dtype |-> IF c = JournalPos + 1 THEN "object" ELSE "number"]],
     rows |-> [r \in 1..Len(titles) |->
                [c \in 1..w |->
                    IF c = JournalPos + 1 THEN titles[r]
                    ELSE IF c = ImpactPos + 1 THEN PyInt(r)
                    ELSE IF c = QuartilePos + 1 THEN PyStr(<<"Q", Digit[r]>>)
                    ELSE PyInt(100 + c)]]]

\* widths around the limit of read_jcr
JcrWidths == {JcrMinColumns - 1, JcrMinColumns, JcrMinColumns + 1}

\* headers of an indexing sheet: two preferred names, a second spelling of one of
\* them, a text column and a numeric column that are not preferred
ScopusHeaders ==
    {[name |-> <<"T","i","t","l","e">>, dtype |-> "object"],
     [name |-> <<" ","S","o","u","r","c","e"," ","T","i","t","l","e"," ">>, dtype |-> "object"],
     [name |-> <<"t","i","t","l","e"," ">>, dtype |-> "object"],
     [name |-> <<"I","S","S","N">>, dtype |-> "object"],
     [name |-> <<"R","a","n","k">>, dtype |-> "number"]}

\* an indexing sheet with these columns and one row; a text cell holds its header
ScopusSheet(cols) ==
    [columns |-> cols,
     rows |-> <<[c \in 1..Len(cols) |->
                   IF cols[c].dtype = "object" THEN PyStr(cols[c].name) ELSE PyInt(c)]>>]

\* the sheets of up to MaxColumns columns with different headers
ScopusSheets ==
    {ScopusSheet(cols) : cols \in {cs \in SeqsUpTo(ScopusHeaders, 1, MaxColumns) :
                                      \A i, j \in 1..Len(cs) : i # j => cs[i] # cs[j]}}


----------------------------------------------------------------------------
(* load_jcr_cached, load_scopus_cached: st.cache_data over the two readers. *)

Loaders == {"jcr", "scopus"}

\* the workbooks behind the two URLs
StoreSheets ==
    [jcr |-> JcrSheet(JcrMinColumns, "named", <<PyStr(<<"a", "b", "a">>)>>),
     scopus |-> ScopusSheet(<<[name |-> <<"T","i","t","l","e">>, dtype |-> "object"]>>)]

\* what a loader computes on a cache miss
LoadedTable(which, store) ==
    IF which = "jcr" THEN read_jcr(store.jcr).table
    ELSE read_scopus_titles(store.scopus,
                            CHOOSE c \in _pick_scopus_title_col(store.scopus) : TRUE).table

\* mutant: the frame a caller holds is the stored object
TableShared(held, stored) == stored

\* a caller is given a copy of the stored frame, and a reload builds a new frame: the
\* frame a caller holds stays as it is
TableInUse(held, stored) == held

----------------------------------------------------------------------------
(* _get_session: one GET through the adapter and its Retry object. *)

\* Retry(total=4, ...)
RetryTotal == 4

\* status_forcelist
status_forcelist == {429, 500, 502, 503, 504}

\* the statuses Retry retries when the response carries Retry-After
\* (respect_retry_after_header is left at its default)
RETRY_AFTER_STATUS_CODES == {413, 429, 503}

\* what one attempt gets: a response, or no response at all
Answer(status, retry_after) == [net |-> "ok", status |-> status, retry_after |-> retry_after]
Answers ==
    {Answer(200, FALSE), Answer(404, FALSE), Answer(404, TRUE), Answer(413, FALSE),
     Answer(413, TRUE), Answer(429, FALSE), Answer(500, FALSE), NetError}

\* mutant: every error status is retried
IsRetryAnyError(status, has_retry_after, total) == IsErrorStatus(status)

\* Retry.is_retry for a GET
is_retry(status, has_retry_after, total) ==
    \/ status \in status_forcelist
    \/ total > 0 /\ has_retry_after /\ status \in RETRY_AFTER_STATUS_CODES

\* mutant: the retries never run out
IsExhaustedNever(total) == FALSE

\* Retry.is_exhausted, after increment
is_exhausted(total) == total < 0

\* the attempt is one the Retry object counts
Retryable(a, total) == a.net = "error" \/ is_retry(a.status, a.retry_after, total)

\* what the adapter raises once the retries have run out
Exhausted(a) ==
    [net |-> "error", why |-> IF a.net = "error" THEN "ConnectionError" ELSE "RetryError"]

\* the three places that call _get_session().get
Callers == {"crossref", "csl", "jcr"}

\* what a 200 response carries for each of them
BodyFor(caller) ==
    CASE caller = "crossref" -> Envelope(MsgFull)
      [] caller = "csl" -> MsgFull
      [] caller = "jcr" -> StoreSheets.jcr

\* r = session.get(url); r.raise_for_status(); io.BytesIO(r.content)
_download_excel(resp) ==
    IF resp.net = "error" THEN RaisedBy(resp)
    ELSE IF IsErrorStatus(resp.status) THEN Raise("HTTPError")
    ELSE resp.body

\* read_jcr(_download_excel(url))
load_jcr_cached(resp) ==
    Bind(_download_excel(resp), LAMBDA content :
        IF IsExc(content) THEN content ELSE read_jcr(content))

\* what the caller of the GET ends with
CallerEnds(caller, resp) ==
    CASE caller = "crossref" -> TryCrossref(resp)
      [] caller = "csl" -> TryCsl(resp)
      [] caller = "jcr" -> load_jcr_cached(resp)

----------------------------------------------------------------------------
(* The admin page: one run of the script of Admin - Login Logs.py. *)

\* what ADMIN_PASS can be configured to, "" when it is not, and what can be typed
Passwords == {"", "s", "t"}

\* the two frames load_tables returns
Tables == [users_df |-> "users", logins_df |-> "login_history"]

\* if not ADMIN_PASS: ... st.stop()
Configured(secret) == secret # ""

\* if "admin_ok" not in st.session_state: st.session_state.admin_ok = False
WithAdminOk(ss) ==
    IF "admin_ok" \in DOMAIN ss THEN ss ELSE [k \in {"admin_ok"} |-> FALSE]

\* mutant: a wrong password leaves an unlocked session unlocked
UnlockKeeps(ss, pw, secret) == [ss EXCEPT !["admin_ok"] = @ \/ (pw = secret)]

\* if st.button("Unlock"): st.session_state.admin_ok = (pw == ADMIN_PASS)
Unlock(ss, pw, secret) == [ss EXCEPT !["admin_ok"] = (pw = secret)]

\* load_tables under st.cache_data: the cached frames, or the two reads
load_tables(cached, db) ==
    IF cached # << >> THEN [value |-> cached[1], cache |-> cached]
    ELSE IF db = "ok" THEN [value |-> Tables, cache |-> <<Tables>>]
    ELSE [value |-> Raise("DatabaseError"), cache |-> cached]

\* a run that stops before the tables
Stopped(where, ss, cached) ==
    [stop |-> where, ss |-> ss, called |-> FALSE, shown |-> << >>, cache |-> cached]

\* the script from top to bottom: the configured password, the session's state,
\* the text of the password box, whether Unlock was clicked, the database
PageRun(secret, ss, pw, clicked, db, cached) ==
    IF ~Configured(secret) THEN Stopped("not configured", ss, cached)
    ELSE Bind(IF clicked THEN Unlock(WithAdminOk(ss), pw, secret) ELSE WithAdminOk(ss),
              LAMBDA state :
        IF ~state["admin_ok"] THEN Stopped("locked", state, cached)
        ELSE Bind(load_tables(cached, db), LAMBDA t :
            IF IsExc(t.value)
            THEN [stop |-> "error", ss |-> state, called |-> TRUE, shown |-> << >>,
                  cache |-> t.cache]
            ELSE [stop |-> "end", ss |-> state, called |-> TRUE, shown |-> <<t.value>>,
                  cache |-> t.cache]))

----------------------------------------------------------------------------
(* Initial states. *)

\* nothing has run yet
Fresh ==
    /\ ny = << >>
    /\ futs = << >> /\ entries = << >>
    /\ cache = << >> /\ resorted = FALSE

\* merge_enrich_fast is not called
NoEnrich ==
    /\ cfg = [min_score |-> 80, wos_if_missing |-> TRUE, scopus_exact_first |-> TRUE]
    /\ _USE_RAPIDFUZZ = TRUE /\ wratio = << >>
    /\ df = << >> /\ jcr = << >> /\ scopus = << >>
    /\ q_norm = << >> /\ imp = << >> /\ qrt = << >> /\ wos = << >> /\ scp = << >>
    /\ out_df = << >>

\* no reader is called
NoLoader == sheet = << >> /\ loaded = << >> /\ tcache = << >>

\* no request is under way
NoGet == tries = << >> /\ retry = RetryTotal /\ got = NoResponse

\* the admin page is not opened
NoPage ==
    /\ ADMIN_PASS = "" /\ session_state = << >> /\ lt_cache = << >>
    /\ page = None /\ runs = 0

\* no function is called on its own
NoCall == arg = None /\ ret = << >> /\ NoGet /\ NoPage

\* the script runs with a text area of up to MaxLines lines and the slider's value
Init ==
    /\ NoCall
    /\ Fresh /\ NoEnrich /\ NoLoader
    /\ pc = "script"
    /\ nx = << >> /\ dois = << >>
    /\ \E t \in SeqsUpTo(LinePool, 0, MaxLines) : dois_text = t
    /\ max_workers \in WorkerChoices(2)
    /\ net = BatchNet

\* fetch_parallel is called with any list of identifiers
InitDirect ==
    /\ NoCall
    /\ Fresh /\ NoEnrich /\ NoLoader
    /\ pc = "fetch"
    /\ nx = << >> /\ dois_text = << >>
    /\ \E ds \in SeqsUpTo(IdPool, 0, MaxBatch) : dois = ds
    /\ max_workers \in WorkerChoices(1)
    /\ net = DirectNet

\* one identifier is resolved, the endpoints answering in every way
InitResolve ==
    /\ NoCall
    /\ Fresh /\ NoEnrich /\ NoLoader
    /\ pc = "fetch"
    /\ nx = << >> /\ dois_text = << >>
    /\ \E d \in IdPool : dois = <<d>>
    /\ max_workers = 12
    /\ net = FullNet

\* normalize_doi_input is applied to a string
InitNorm ==
    /\ NoCall
    /\ Fresh /\ NoEnrich /\ NoLoader
    /\ pc = "normalize"
    /\ dois_text = << >> /\ dois = << >>
    /\ nx \in NormInputs
    /\ max_workers = 12
    /\ net = BatchNet

\* nothing of merge_enrich_fast has run
EnrichFresh ==
    /\ q_norm = << >> /\ imp = << >> /\ qrt = << >> /\ wos = << >> /\ scp = << >>
    /\ out_df = << >>

\* the script, the normaliser and fetch_parallel are not under test
NoFetch ==
    /\ Fresh
    /\ nx = << >> /\ dois_text = << >> /\ dois = << >>
    /\ max_workers = 12 /\ net = BatchNet

\* merge_enrich_fast is called with a batch, two tables and a configuration, with and
\* without rapidfuzz; one table has any rows, none included, the other the row "ab."
InitEnrich ==
    /\ NoCall
    /\ NoFetch /\ NoLoader /\ EnrichFresh
    /\ pc = "enrich"
    /\ cfg \in MatchCfgs
    /\ \E js \in SeqsUpTo(BatchJournals, 0, MaxRecords) : df = BatchFrame(js)
    /\ \E ts \in SeqsUpTo(RefTitles, 0, MaxRefRows) :
         \/ jcr = JcrFrame(ts) /\ scopus = ScopusFrame(OtherSheet)
         \/ jcr = JcrFrame(OtherSheet) /\ scopus = ScopusFrame(ts)
    /\ _USE_RAPIDFUZZ \in BOOLEAN
    /\ IF _USE_RAPIDFUZZ
       THEN wratio \in [ScoredPairs(df, <<jcr, scopus>>) -> WScores]
       ELSE wratio = << >>

\* a reader is given the first sheet of a workbook
InitReaders ==
    /\ NoCall
    /\ NoFetch /\ NoEnrich
    /\ loaded = << >> /\ tcache = << >>
    /\ \/ /\ pc = "read_jcr"
          /\ \E w \in JcrWidths, style \in HeaderStyles,
                ts \in SeqsUpTo(RefTitles, 0, MaxRefRows) : sheet = JcrSheet(w, style, ts)
       \/ /\ pc = "read_scopus"
          /\ sheet \in ScopusSheets

\* fetch_parallel runs while the table cache is loaded and expires; the impact table
\* has a URL, the indexing table has none
InitCaches ==
    /\ NoCall
    /\ Fresh /\ NoEnrich
    /\ pc = "fetch"
    /\ nx = << >> /\ dois_text = << >>
    /\ \E ds \in SeqsUpTo({IdA, IdB}, 0, MaxBatch) : dois = ds
    /\ max_workers \in WorkerChoices(1)
    /\ net = DirectNet
    /\ sheet = [which \in {"jcr"} |-> StoreSheets[which]]
    /\ loaded = << >> /\ tcache = << >>

\* merge_enrich_fast runs on the frames a session was given while the table cache is
\* refreshed from the workbooks of now
InitShared ==
    /\ NoCall
    /\ NoFetch /\ EnrichFresh
    /\ pc = "enrich"
    /\ cfg \in MatchCfgs
    /\ \E js \in SeqsUpTo(BatchJournals, 0, MaxRecords) : df = BatchFrame(js)
    /\ \E ts \in SeqsUpTo(RefTitles, 0, MaxRefRows) :
         \/ jcr = JcrFrame(ts) /\ scopus = ScopusFrame(OtherSheet)
         \/ jcr = JcrFrame(OtherSheet) /\ scopus = ScopusFrame(ts)
    /\ _USE_RAPIDFUZZ = FALSE /\ wratio = << >>
    /\ sheet = StoreSheets /\ loaded = << >>
    /\ tcache = [which \in Loaders |-> IF which = "jcr" THEN jcr ELSE scopus]

\* merge_enrich_fast is called with a batch whose names have several close rows in the
\* impact table, with and without rapidfuzz
InitMatch ==
    /\ NoCall
    /\ NoFetch /\ NoLoader /\ EnrichFresh
    /\ pc = "enrich"
    /\ cfg \in {c \in MatchCfgs : c.scopus_exact_first}
    /\ \E js \in SeqsUpTo(RankedJournals, 0, MaxRecords) : df = BatchFrame(js)
    /\ \E ts \in SeqsUpTo(RankedTitles, 0, MaxRefRows) : jcr = JcrFrame(ts)
    /\ scopus = ScopusFrame(OtherSheet)
    /\ _USE_RAPIDFUZZ \in BOOLEAN
    /\ IF _USE_RAPIDFUZZ
       THEN wratio \in [ScoredPairs(df, <<jcr, scopus>>) -> WScores]
       ELSE wratio = << >>

\* normalize_journal is applied to a cell
InitJournal ==
    /\ NoFetch /\ NoEnrich /\ NoLoader
    /\ pc = "normalize_journal"
    /\ arg \in JournalCells
    /\ ret = << >>
    /\ NoGet /\ NoPage

\* _extract_fields_generic is given a message whose date fields have every shape
InitYear ==
    /\ NoFetch /\ NoEnrich /\ NoLoader
    /\ pc = "extract"
    /\ arg \in DatedMsgs
    /\ ret = << >>
    /\ NoGet /\ NoPage

\* _extract_fields_generic is given a message with up to MaxAuthors author entries
InitAuthors ==
    /\ NoFetch /\ NoEnrich /\ NoLoader
    /\ pc = "extract"
    /\ arg \in AuthorMsgs
    /\ ret = << >>
    /\ NoGet /\ NoPage

\* one of the callers is about to send its GET
InitHttp ==
    /\ NoFetch /\ NoEnrich /\ NoLoader
    /\ pc = "get"
    /\ arg \in {[caller |-> c] : c \in Callers}
    /\ ret = << >>
    /\ NoGet /\ NoPage

\* a browser session that has not opened the admin page yet
InitAdmin ==
    /\ NoFetch /\ NoEnrich /\ NoLoader
    /\ pc = "admin"
    /\ arg = None /\ ret = << >>
    /\ NoGet
    /\ ADMIN_PASS \in Passwords
    /\ session_state = << >> /\ lt_cache = << >>
    /\ page = None /\ runs = 0

----------------------------------------------------------------------------
(* Actions. *)

\* normalize_doi_input applied to the string, then to its own result
Normalize ==
    /\ pc = "normalize"
    /\ Len(ny) < MaxApply
    /\ ny' = Append(ny, normalize_doi_input(IF ny = << >> THEN nx ELSE ny[Len(ny)]))
    /\ UNCHANGED <<xvars, evars, lvars, pc, nx, dois_text, dois, max_workers, net, futs, entries, cache, resorted>>

\* the script computes dois and, with at least one, calls fetch_parallel
ReadInput ==
    /\ pc = "script"
    /\ \E ds \in {DedupDois(dois_text)} :
         dois' = ds /\ pc' = IF ds = << >> THEN "idle" ELSE "fetch"
    /\ UNCHANGED <<xvars, evars, lvars, nx, ny, dois_text, max_workers, net, futs, entries, cache, resorted>>

\* ex.submit(fetch_metadata_unified, d), for the next d of dois
Submit ==
    /\ pc = "fetch"
    /\ Len(futs) < Len(dois)
    /\ futs' = Append(futs, NewFuture(dois[Len(futs) + 1]))
    /\ UNCHANGED <<xvars, evars, lvars, pc, nx, ny, dois_text, dois, max_workers, net, entries, cache, resorted>>

\* a pool thread takes the oldest queued call
Start ==
    \E i \in 1..Len(futs) :
        /\ pc \in {"fetch", "unwind"}
        /\ futs[i].st = "queued"
        /\ \A j \in 1..(i - 1) : futs[j].st # "queued"
        /\ Cardinality({j \in 1..Len(futs) : Running(j)}) < PoolSize(max_workers, dois)
        /\ futs' = [futs EXCEPT ![i].st = "lookup"]
        /\ UNCHANGED <<xvars, evars, lvars, pc, nx, ny, dois_text, dois, max_workers, net, entries, cache, resorted>>

\* st.cache_data: a stored result is returned, else the function body runs
Lookup ==
    \E i \in 1..Len(futs) :
        /\ futs[i].st = "lookup"
        /\ IF CacheHit(cache, futs[i].doi)
           THEN Finish(i, cache[futs[i].doi], "none", NoResponse)
           ELSE futs' = [futs EXCEPT ![i].st = "crossref"] /\ cache' = cache
        /\ UNCHANGED <<xvars, evars, lvars, pc, nx, ny, dois_text, dois, max_workers, net, entries, resorted>>

\* the first try block: the registry answers resp
QueryCrossref ==
    \E i \in 1..Len(futs) :
        /\ futs[i].st = "crossref"
        /\ \E resp \in net.crossref : \E out \in {TryCrossref(resp)} :
                 IF out.kind = "raise" THEN Fail(i, out.value, "crossref", resp)
                 ELSE IF NeedsCsl(out)
                      THEN /\ futs' = [futs EXCEPT ![i].st = "csl", ![i].r1 = resp,
                                                   ![i].log = Append(@, "crossref")]
                           /\ cache' = cache
                      ELSE Finish(i, out.value, "crossref", resp)
        /\ UNCHANGED <<xvars, evars, lvars, pc, nx, ny, dois_text, dois, max_workers, net, entries, resorted>>

\* the second try block: the content-negotiation endpoint answers resp
QueryCsl ==
    \E i \in 1..Len(futs) :
        /\ futs[i].st = "csl"
        /\ \E resp \in net.csl : \E out \in {TryCsl(resp)} :
                 IF out.kind = "raise" THEN Fail(i, out.value, "csl", resp)
                 ELSE Finish(i, out.value, "csl", resp)
        /\ UNCHANGED <<xvars, evars, lvars, pc, nx, ny, dois_text, dois, max_workers, net, entries, resorted>>

\* as_completed yields a finished future: fut.result() and the row
Collect ==
    \E i \in 1..Len(futs) :
        /\ pc = "fetch"
        /\ Len(futs) = Len(dois)
        /\ futs[i].st = "finished"
        /\ futs' = [futs EXCEPT ![i].st = "collected"]
        /\ IF IsExc(futs[i].result)
           THEN pc' = "unwind" /\ entries' = entries
           ELSE pc' = pc
                /\ entries' = entries \o EntryOf(DoiOfFuture(futs, i), futs[i].result)
        /\ UNCHANGED <<xvars, evars, lvars, nx, ny, dois_text, dois, max_workers, net, cache, resorted>>

\* every future is collected: the pool is shut down, the rows are sorted and returned
FetchReturn ==
    /\ pc = "fetch"
    /\ Len(futs) = Len(dois)
    /\ \A i \in 1..Len(futs) : futs[i].st = "collected"
    /\ \E sorted \in {SortEntries(entries, dois)} :
         entries' = sorted /\ resorted' = (sorted # entries)
    /\ pc' = "done"
    /\ UNCHANGED <<xvars, evars, lvars, nx, ny, dois_text, dois, max_workers, net, futs, cache>>

\* the resolver is replaced by a stub that raises for this call
StubRaises ==
    \E i \in 1..Len(futs) :
        /\ futs[i].st = "lookup"
        /\ Fail(i, Raise("RuntimeError"), "none", NoResponse)
        /\ UNCHANGED <<xvars, evars, lvars, pc, nx, ny, dois_text, dois, max_workers, net, entries, resorted>>

\* fut.result() raised: the with block waits for the pool, then the exception leaves
\* fetch_parallel
Unwind ==
    /\ pc = "unwind"
    /\ \A i \in 1..Len(futs) : Settled(i)
    /\ pc' = "raised"
    /\ UNCHANGED <<xvars, evars, lvars, nx, ny, dois_text, dois, max_workers, net, futs, entries, cache, resorted>>

\* merge_enrich_fast with an empty batch: the batch is returned as it is
EnrichEmpty ==
    /\ pc = "enrich"
    /\ df = << >>
    /\ out_df' = df
    /\ pc' = "enriched"
    /\ UNCHANGED <<xvars, fvars, lvars, cfg, _USE_RAPIDFUZZ, wratio, df, jcr, scopus,
                   q_norm, imp, qrt, wos, scp>>

\* q, imp, qrt, wos and the impact-table stage
MatchJcr ==
    /\ pc = "enrich"
    /\ df # << >>
    /\ \E names \in {[i \in 1..Len(df) |-> QueryNorm(df[i].Journal)]} :
       \E rows \in {[i \in 1..Len(df) |->
                       JcrRow(_USE_RAPIDFUZZ, wratio, names[i], jcr, cfg.min_score)]} :
         /\ q_norm' = names
         /\ imp' = [i \in 1..Len(df) |-> IF rows[i] = 0 THEN None ELSE jcr[rows[i]].Impact]
         /\ qrt' = [i \in 1..Len(df) |-> IF rows[i] = 0 THEN None ELSE jcr[rows[i]].Quartile]
         /\ wos' = [i \in 1..Len(df) |->
                      IF rows[i] = 0 THEN WosDefault(cfg)
                      ELSE WosOfMatch(cfg, WosDefault(cfg))]
    /\ pc' = "scopus_exact"
    /\ UNCHANGED <<xvars, fvars, lvars, cfg, _USE_RAPIDFUZZ, wratio, df, jcr, scopus, scp, out_df>>

\* scp and the exact stage of the indexing table
MatchScopusExact ==
    /\ pc = "scopus_exact"
    /\ scp' = [i \in 1..Len(q_norm) |-> ScopusExact(cfg, q_norm[i], scopus)]
    /\ pc' = "scopus_fuzzy"
    /\ UNCHANGED <<xvars, fvars, lvars, cfg, _USE_RAPIDFUZZ, wratio, df, jcr, scopus,
                   q_norm, imp, qrt, wos, out_df>>

\* the fuzzy stage of the indexing table
MatchScopusFuzzy ==
    /\ pc = "scopus_fuzzy"
    /\ scp' = [i \in 1..Len(q_norm) |->
                 ScopusFuzzy(_USE_RAPIDFUZZ, wratio, cfg, q_norm[i], scopus, scp[i])]
    /\ pc' = "assemble"
    /\ UNCHANGED <<xvars, fvars, lvars, cfg, _USE_RAPIDFUZZ, wratio, df, jcr, scopus,
                   q_norm, imp, qrt, wos, out_df>>

\* the copy of the batch with the four columns is returned
EnrichReturn ==
    /\ pc = "assemble"
    /\ out_df' = Assemble(df, imp, qrt, scp, wos)
    /\ pc' = "enriched"
    /\ UNCHANGED <<xvars, fvars, lvars, cfg, _USE_RAPIDFUZZ, wratio, df, jcr, scopus,
                   q_norm, imp, qrt, wos, scp>>

NextEnrich == EnrichEmpty \/ MatchJcr \/ MatchScopusExact \/ MatchScopusFuzzy \/ EnrichReturn

\* read_jcr returns the table or raises
ReadJcr ==
    /\ pc = "read_jcr"
    /\ \E r \in {read_jcr(sheet)} :
         loaded' = r /\ pc' = IF IsExc(r) THEN "jcr_raised" ELSE "jcr_loaded"
    /\ UNCHANGED <<xvars, fvars, evars, sheet, tcache>>

\* read_scopus_titles picks the title column and returns the table
ReadScopus ==
    /\ pc = "read_scopus"
    /\ \E title_col \in _pick_scopus_title_col(sheet) :
         loaded' = read_scopus_titles(sheet, title_col)
    /\ pc' = "scopus_loaded"
    /\ UNCHANGED <<xvars, fvars, evars, sheet, tcache>>

NextReaders == ReadJcr \/ ReadScopus

\* a session calls a loader that has a URL and no stored result: the reader runs
\* and its table is stored
TableLoad ==
    \E which \in Loaders \cap DOMAIN sheet :
        /\ which \notin DOMAIN tcache
        /\ tcache' = [w \in DOMAIN tcache \cup {which} |->
                         IF w = which THEN LoadedTable(which, sheet) ELSE tcache[w]]
        /\ UNCHANGED <<xvars, pc, fvars, evars, sheet, loaded>>

\* the ttl of a stored table runs out
TableExpire ==
    \E which \in DOMAIN tcache :
        /\ tcache' = [w \in DOMAIN tcache \ {which} |-> tcache[w]]
        /\ UNCHANGED <<xvars, pc, fvars, evars, sheet, loaded>>

\* both stored tables expire and another session loads them again, while this
\* session enriches
TableRefresh ==
    /\ pc \in {"enrich", "scopus_exact", "scopus_fuzzy", "assemble"}
    /\ \E stored \in {[which \in Loaders |-> LoadedTable(which, sheet)]} :
         /\ tcache # stored
         /\ tcache' = stored
         /\ jcr' = TableInUse(jcr, stored.jcr)
         /\ scopus' = TableInUse(scopus, stored.scopus)
    /\ UNCHANGED <<xvars, pc, fvars, sheet, loaded, cfg, _USE_RAPIDFUZZ, wratio, df,
                   q_norm, imp, qrt, wos, scp, out_df>>

\* normalize_journal applied to the cell, then to its own result
NormalizeJournal ==
    /\ pc = "normalize_journal"
    /\ Len(ret) < MaxApply
    /\ ret' = Append(ret, normalize_journal(IF ret = << >> THEN arg ELSE PyStr(ret[Len(ret)])))
    /\ UNCHANGED <<pc, fvars, evars, lvars, arg, gvars, avars>>

\* _extract_fields_generic returns the record or raises
ExtractFields ==
    /\ pc = "extract"
    /\ ret' = <<_extract_fields_generic(arg, "crossref")>>
    /\ pc' = "extracted"
    /\ UNCHANGED <<fvars, evars, lvars, arg, gvars, avars>>

\* urlopen: one attempt of the request; a counted failure is retried while
\* retries remain and raised once they have run out, anything else is returned
Attempt ==
    /\ pc = "get"
    /\ got = NoResponse
    /\ Len(tries) < MaxAttempts
    /\ \E a \in Answers :
        /\ tries' = Append(tries, a)
        /\ IF Retryable(a, retry)
           THEN /\ retry' = retry - 1
                /\ got' = IF is_exhausted(retry - 1) THEN Exhausted(a) ELSE NoResponse
           ELSE /\ retry' = retry
                /\ got' = Http(a.status, BodyFor(arg.caller))
    /\ UNCHANGED <<pc, fvars, evars, lvars, arg, ret, avars>>

\* the caller goes on with what session.get returned or raised
Deliver ==
    /\ pc = "get"
    /\ got # NoResponse
    /\ ret' = <<CallerEnds(arg.caller, got)>>
    /\ pc' = "got"
    /\ UNCHANGED <<fvars, evars, lvars, arg, gvars, avars>>

NextHttp == Attempt \/ Deliver

\* the page runs: it is opened, the password box is edited, Unlock is clicked
RunPage ==
    /\ pc = "admin"
    /\ runs < MaxRuns
    /\ \E pw \in Passwords, clicked \in BOOLEAN, db \in {"ok", "broken"} :
        \* the sidebar is not drawn, and Unlock cannot be clicked, when the
        \* previous run stopped at the first gate
        /\ clicked => page # None /\ page.stop # "not configured"
        /\ \E r \in {PageRun(ADMIN_PASS, session_state, pw, clicked, db, lt_cache)} :
            /\ page' = [secret |-> ADMIN_PASS, before |-> session_state, pw |-> pw,
                        clicked |-> clicked, stop |-> r.stop, called |-> r.called,
                        shown |-> r.shown]
            /\ session_state' = r.ss
            /\ lt_cache' = r.cache
    /\ runs' = runs + 1
    /\ UNCHANGED <<pc, fvars, evars, lvars, arg, ret, gvars, ADMIN_PASS>>

\* the operator changes or removes the configured password
Reconfigure ==
    /\ pc = "admin"
    /\ \E secret \in Passwords \ {ADMIN_PASS} : ADMIN_PASS' = secret
    /\ UNCHANGED <<pc, fvars, evars, lvars, arg, ret, gvars, session_state, lt_cache, page, runs>>

\* ttl=15: the cached frames expire
TablesExpire ==
    /\ pc = "admin"
    /\ lt_cache # << >>
    /\ lt_cache' = << >>
    /\ UNCHANGED <<pc, fvars, evars, lvars, arg, ret, gvars, ADMIN_PASS, session_state, page, runs>>

NextAdmin == RunPage \/ Reconfigure \/ TablesExpire

NextFetch ==
    Submit \/ Start \/ Lookup \/ QueryCrossref \/ QueryCsl \/ Collect \/ FetchReturn

Next == ReadInput \/ NextFetch

NextStub == NextFetch \/ StubRaises \/ Unwind

NextCaches == NextFetch \/ TableLoad \/ TableExpire

NextShared == NextEnrich \/ TableRefresh

\* the script: text area, de-duplication, fetch_parallel
Spec == Init /\ [][Next]_vars

\* fetch_parallel called directly
SpecDirect == InitDirect /\ [][NextFetch]_vars

\* fetch_metadata_unified on one identifier, every response
SpecResolve == InitResolve /\ [][NextFetch]_vars

\* fetch_parallel with a resolver that may raise
SpecStub == InitDirect /\ [][NextStub]_vars

\* normalize_doi_input on its own
SpecNorm == InitNorm /\ [][Normalize]_vars

\* merge_enrich_fast on its own
SpecEnrich == InitEnrich /\ [][NextEnrich]_vars

\* the two readers on their own
SpecReaders == InitReaders /\ [][NextReaders]_vars

\* fetch_parallel and the table cache
SpecCaches == InitCaches /\ [][NextCaches]_vars

\* merge_enrich_fast and the table cache
SpecShared == InitShared /\ [][NextShared]_vars

\* merge_enrich_fast ranking several rows of the impact table
SpecMatch == InitMatch /\ [][NextEnrich]_vars

\* normalize_journal on its own
SpecJournal == InitJournal /\ [][NormalizeJournal]_vars

\* _extract_fields_generic on messages with every shape of date
SpecYear == InitYear /\ [][ExtractFields]_vars

\* _extract_fields_generic on messages with every list of author entries
SpecAuthors == InitAuthors /\ [][ExtractFields]_vars

\* one GET of each caller, every sequence of answers
SpecHttp == InitHttp /\ [][NextHttp]_vars

\* the admin page in one browser session
SpecAdmin == InitAdmin /\ [][NextAdmin]_vars

----------------------------------------------------------------------------
(* Vocabulary of the properties. *)

\* the DOI fields of the rows, in order
OutDois == [k \in 1..Len(entries) |-> entries[k].DOI.v]

Distinct(ds) == \A i, j \in 1..Len(ds) : i # j => ds[i] # ds[j]

\* the place of the last occurrence of d in ds
LastPos(ds, d) == CHOOSE i \in 1..Len(ds) : ds[i] = d /\ \A j \in 1..Len(ds) : ds[j] = d => j <= i

\* the place of the first occurrence of d in ds
FirstPos(ds, d) == CHOOSE i \in 1..Len(ds) : ds[i] = d /\ \A j \in 1..Len(ds) : ds[j] = d => i <= j

\* how often d occurs in ds
Count(ds, d) == Cardinality({i \in 1..Len(ds) : ds[i] = d})

\* s begins, whatever the case, with one of the four prefixes
HasDoiPrefix(s) == \E k \in 1..Len(DoiPrefixes) : StartsWith(Lower(s), DoiPrefixes[k])

\* the registry step failed: it raised, or its record has neither title nor journal
RegistryFailed(resp) ==
    Bind(_crossref_fetch_raw(resp), LAMBDA msg :
        IsExc(msg) \/ Bind(_extract_fields_generic(msg, "crossref"), LAMBDA data :
                          IsExc(data) \/ (~Truthy(data.Title) /\ ~Truthy(data.Journal))))

DataFields == {"Title", "Authors", "Journal", "Publisher", "Year", "Citations"}

----------------------------------------------------------------------------
(* C1..C10 *)

\* C1: for a list of distinct identifiers, whatever the order in which the futures
\* complete, the rows fetch_parallel returns are in the input order: row k carries
\* the identifier at place k of the input.
C1_InputOrder ==
    (pc = "done" /\ Distinct(dois)) => OutDois = dois

\* three distinct identifiers, collected in another order than submitted
C1_Witness ==
    pc = "done" /\ Len(dois) = 3 /\ Distinct(dois) /\ resorted /\ OutDois = dois

\* C2: when the resolver raises for an identifier of the batch, the call still
\* returns one row per identifier, the failing identifier's row marked as an error
\* and every other row as the resolver gave it.
C2_FailureIsolation ==
    (pc \in {"done", "raised"} /\ \E i \in 1..Len(futs) : IsExc(futs[i].result))
    => /\ pc = "done"
       /\ Len(entries) = Len(dois)
       /\ \A i \in 1..Len(futs) : \E k \in 1..Len(entries) :
            /\ entries[k].DOI.v = futs[i].doi
            /\ IF IsExc(futs[i].result) THEN StartsWith(entries[k].Title.v, <<"[ERROR] ">>)
               ELSE <<entries[k]>> = EntryOf(futs[i].doi, futs[i].result)

\* the stub raised for one identifier and every other identifier was resolved
C2_Witness ==
    /\ pc = "raised"
    /\ Len(dois) >= 2
    /\ Cardinality({i \in 1..Len(futs) : IsExc(futs[i].result)}) = 1
    /\ entries = << >>

C4_NeverRaises ==
    \A i \in 1..Len(futs) : Settled(i) =>
        /\ ~IsExc(futs[i].result)
        /\ IF IsErrorDict(futs[i].result)
           THEN {"Crossref", "DOI content negotiation"} \subseteq Range(futs[i].result.error)
           ELSE DOMAIN futs[i].result = DataFields

\* the registry was unreachable and the second endpoint's payload made the extraction
\* raise: an error record
C4_Witness ==
    \E i \in 1..Len(futs) :
        /\ Settled(i)
        /\ futs[i].r1 = NetError
        /\ futs[i].r2 = Http(200, MsgBadDate)
        /\ IsErrorDict(futs[i].result)

\* C5: the registry is queried first; the content-negotiation endpoint is queried if
\* and only if the registry step failed; when the registry gives a title or a journal,
\* that record is returned and the second endpoint is never queried.
C5_TwoTierOrder ==
    \A i \in 1..Len(futs) :
        /\ futs[i].log \in {<< >>, <<"crossref">>, <<"crossref", "csl">>}
        /\ futs[i].st = "csl" => futs[i].log = <<"crossref">> /\ RegistryFailed(futs[i].r1)
        /\ (Settled(i) /\ futs[i].log # << >>) =>
             /\ ("csl" \in Range(futs[i].log)) <=> RegistryFailed(futs[i].r1)
             /\ ~RegistryFailed(futs[i].r1) =>
                  /\ futs[i].r2 = NoResponse
                  /\ futs[i].result =
                       _extract_fields_generic(_crossref_fetch_raw(futs[i].r1), "crossref")

\* the registry gave a journal and no title: returned without a second query
C5_Witness ==
    \E i \in 1..Len(futs) :
        /\ Settled(i)
        /\ futs[i].r1 = Http(200, Envelope(MsgJournalOnly))
        /\ futs[i].log = <<"crossref">>
        /\ ~IsErrorDict(futs[i].result)

\* C6: a result of fetch_metadata_unified is an error record or a record whose title
\* or journal is not empty, whichever tier gave it.
C6_ResolvedHasTitleOrJournal ==
    \A i \in 1..Len(futs) :
        (Settled(i) /\ ~IsExc(futs[i].result) /\ ~IsErrorDict(futs[i].result))
        => (futs[i].result.Title # EmptyStr \/ futs[i].result.Journal # EmptyStr)

\* the second tier gave a journal and no title after the registry gave an empty record
C6_Witness ==
    \E i \in 1..Len(futs) :
        /\ Settled(i)
        /\ futs[i].r1 = Http(200, Envelope(MsgBlankTitle))
        /\ futs[i].r2 = Http(200, MsgJournalOnly)
        /\ futs[i].result.Title = EmptyStr /\ futs[i].result.Journal = PyStr(<<"J">>)

\* C7 as stated: normalize_doi_input applied to its own result changes nothing,
\* for every string.
C7_Idempotent ==
    \A k \in 1..(Len(ny) - 1) : ny[k + 1] = ny[k]

\* C7, amended: normalize_doi_input applied to its own result changes nothing when
\* that result does not itself begin with one of the four prefixes; a result that
\* still begins with one (the input carried two, as "doi:doi:10.1/ab") loses it.
C7_IdempotentUnlessPrefixed ==
    \A k \in 1..(Len(ny) - 1) :
        IF HasDoiPrefix(ny[k]) THEN Len(ny[k + 1]) < Len(ny[k]) ELSE ny[k + 1] = ny[k]

\* " DOI:10.1/ab" is cut to "10.1/ab", and a second application returns the same
C7_Witness ==
    /\ nx = <<" ", "D", "O", "I", ":">> \o IdAB
    /\ Len(ny) >= 2
    /\ ny[1] = IdAB /\ ny[2] = IdAB

\* the smallest of a non-empty set of numbers
Least(S) == CHOOSE k \in S : \A j \in S : k <= j

\* C8: normalize_doi_input trims the string, removes the first of "https://doi.org/",
\* "http://doi.org/", "doi:", "doi " that it begins with (whatever the case), at most
\* one, and trims again; "https://doi.org/10.1/ab" and "DOI:10.1/ab" give "10.1/ab";
\* a string with none of the prefixes is returned trimmed and otherwise unchanged.
C8_StripOnePrefix ==
    Len(ny) >= 1 =>
      LET t == Strip(nx)
          M == {k \in 1..4 : StartsWith(Lower(t), DoiPrefixes[k])}
      IN  /\ IF M = {} THEN ny[1] = t
             ELSE ny[1] = Strip(DropFirst(t, Len(DoiPrefixes[Least(M)])))
          /\ nx \in {PrefixHttps \o IdAB, <<"D", "O", "I", ":">> \o IdAB} => ny[1] = IdAB

\* "https://doi.org/doi:10.1/ab" loses the resolver prefix only
C8_Witness ==
    /\ nx = PrefixHttps \o PrefixColon \o IdAB
    /\ Len(ny) >= 1
    /\ ny[1] = PrefixColon \o IdAB

\* the normalised non-blank lines of the text area
NormalisedLines ==
    LET raw == NonBlank(dois_text)
    IN  [i \in 1..Len(raw) |-> normalize_doi_input(raw[i])]

\* C9: the script keeps one entry per distinct normalised identifier, at the place of
\* its first occurrence, the first occurrences in their order; the lines "10.1/a",
\* "10.1/a", "10.1/b" become "10.1/a", "10.1/b" and give 2 rows with those DOI fields.
C9_Dedup ==
    pc # "script" =>
      /\ Distinct(dois)
      /\ Range(dois) = Range(NormalisedLines)
      /\ \A i, j \in 1..Len(dois) :
           i < j => FirstPos(NormalisedLines, dois[i]) < FirstPos(NormalisedLines, dois[j])
      /\ dois_text = <<IdA, IdA, IdB>> => dois = <<IdA, IdB>>
      /\ pc = "done" => OutDois = dois

\* the example, fetched
C9_Witness ==
    pc = "done" /\ dois_text = <<IdA, IdA, IdB>> /\ OutDois = <<IdA, IdB>>

\* C10 as stated: for every list given to fetch_parallel, duplicates included, the
\* rows come in the order of the de-duplicated list.
C10_DedupOrder ==
    pc = "done" => OutDois = DictFromKeys(dois, << >>)

\* C10, amended: fetch_parallel does not de-duplicate.  For a list without duplicates
\* (what the script passes) the rows come in the input order whatever the completion
\* order; for a list with duplicates there is one row per element of the list, the
\* rows ordered by the place of the last occurrence of their identifier.
C10_OrderByLastPlace ==
    pc = "done" =>
      /\ Len(entries) = Len(dois)
      /\ \A d \in Range(dois) : Count(OutDois, d) = Count(dois, d)
      /\ \A k, l \in 1..Len(entries) :
           k < l => LastPos(dois, OutDois[k]) <= LastPos(dois, OutDois[l])
      /\ OutDois = DictFromKeys(dois, << >>) <=> Distinct(dois)

\* "10.1/a", "10.1/b", "10.1/a" gives the rows of b, a, a
C10_Witness ==
    pc = "done" /\ dois = <<IdA, IdB, IdA>> /\ OutDois = <<IdB, IdA, IdA>>

----------------------------------------------------------------------------
(* Vocabulary of the properties of merge_enrich_fast. *)

\* merge_enrich_fast has returned the enriched copy of a non-empty batch
Enriched == pc = "enriched" /\ df # << >>

\* the best similarity score of a name against a non-empty table: the maximum of the
\* matrix row, or int(100 * ratio) of the closest match difflib gives
BestScore(name, frame) ==
    IF _USE_RAPIDFUZZ THEN RowMax(ScoreRow(wratio, name, NormColumn(frame)))
    ELSE DifflibScore(name, get_close_matches(name, NormColumn(frame))[1])

\* the row that score belongs to
BestRow(name, frame) ==
    IF _USE_RAPIDFUZZ THEN ArgMax(ScoreRow(wratio, name, NormColumn(frame)))
    ELSE IndexOf(NormColumn(frame), get_close_matches(name, NormColumn(frame))[1])

\* the exact stage applies to the name
ExactHit(name) == cfg.scopus_exact_first /\ name \in Range(NormColumn(scopus))

\* C11: a row whose normalized journal name is empty gets no impact factor, no
\* quartile and Indexed in Scopus = False, whatever the tables and the configuration
C11_EmptyNameNeverMatches ==
    Enriched =>
        \A i \in 1..Len(out_df) :
            q_norm[i] = << >> =>
                /\ out_df[i].ImpactFactorJCR = None
                /\ out_df[i].QuartileJCR = None
                /\ out_df[i].IndexedInScopus = PyFalse

\* the case of C11: a row with an empty name, an indexing table with a blank title
C11_Witness ==
    /\ Enriched
    /\ \E i \in 1..Len(out_df) : q_norm[i] = << >> /\ out_df[i].IndexedInScopus = PyTrue
    /\ << >> \in Range(NormColumn(scopus))

\* C12: with scopus_exact_first, a row whose normalized name equals the normalized
\* name of an indexing-table row is Indexed in Scopus for every min_score, after the
\* exact stage, after the fuzzy stage and in the frame returned
C12_ExactShortCircuit ==
    /\ pc \in {"scopus_fuzzy", "assemble"} =>
          \A i \in 1..Len(q_norm) : ExactHit(q_norm[i]) => scp[i] = PyTrue
    /\ Enriched =>
          \A i \in 1..Len(out_df) : ExactHit(q_norm[i]) => out_df[i].IndexedInScopus = PyTrue

\* the case of C12: an exact hit whose fuzzy score is below the threshold of 95
C12_Witness ==
    /\ Enriched
    /\ cfg.min_score = 95
    /\ \E i \in 1..Len(out_df) :
          /\ ExactHit(q_norm[i])
          /\ BestScore(q_norm[i], scopus) < cfg.min_score
          /\ out_df[i].IndexedInScopus = PyTrue

\* C13: in both tables and on both paths a best score equal to min_score is a match
\* and a best score below min_score is none (the rows the exact stage has flagged
\* do not reach the threshold)
C13_ThresholdInclusive ==
    Enriched =>
        \A i \in 1..Len(out_df) :
            /\ jcr # << >> =>
                  \A s \in {BestScore(q_norm[i], jcr)} :
                     /\ s = cfg.min_score
                           => out_df[i].ImpactFactorJCR # None /\ out_df[i].QuartileJCR # None
                     /\ s < cfg.min_score
                           => out_df[i].ImpactFactorJCR = None /\ out_df[i].QuartileJCR = None
            /\ scopus # << >> /\ ~ExactHit(q_norm[i]) =>
                  \A s \in {BestScore(q_norm[i], scopus)} :
                     /\ s = cfg.min_score => out_df[i].IndexedInScopus = PyTrue
                     /\ s < cfg.min_score => out_df[i].IndexedInScopus = PyFalse

\* the case of C13: on the difflib path "ab" scores exactly 80 against "aba"
C13_Witness ==
    /\ Enriched /\ ~_USE_RAPIDFUZZ /\ jcr # << >>
    /\ \E i \in 1..Len(out_df) :
          /\ BestScore(q_norm[i], jcr) = cfg.min_score
          /\ out_df[i].ImpactFactorJCR # None

\* C14 as stated: a row whose best impact-table score reaches min_score gets that
\* row's impact factor and quartile and Indexed in Web of Science = True
C14_MatchSetsWos ==
    Enriched =>
        \A i \in 1..Len(out_df) :
            jcr # << >> /\ BestScore(q_norm[i], jcr) >= cfg.min_score =>
                /\ out_df[i].ImpactFactorJCR = jcr[BestRow(q_norm[i], jcr)].Impact
                /\ out_df[i].QuartileJCR = jcr[BestRow(q_norm[i], jcr)].Quartile
                /\ out_df[i].IndexedInWoS = PyTrue

\* C14: a row with a non-empty name whose best impact-table score reaches min_score
\* gets that row's impact factor and quartile; its Web of Science flag is True with
\* wos_if_missing and stays None without it
C14_MatchAttachesRow ==
    Enriched =>
        \A i \in 1..Len(out_df) :
            jcr # << >> /\ q_norm[i] # << >> /\ BestScore(q_norm[i], jcr) >= cfg.min_score =>
                \A r \in {BestRow(q_norm[i], jcr)} :
                   /\ out_df[i].ImpactFactorJCR = jcr[r].Impact
                   /\ out_df[i].QuartileJCR = jcr[r].Quartile
                   /\ out_df[i].IndexedInWoS = (IF cfg.wos_if_missing THEN PyTrue ELSE None)

\* the case of C14: a matched row without wos_if_missing
C14_Witness ==
    /\ Enriched /\ ~cfg.wos_if_missing /\ jcr # << >>
    /\ \E i \in 1..Len(out_df) :
          /\ q_norm[i] # << >>
          /\ BestScore(q_norm[i], jcr) >= cfg.min_score
          /\ out_df[i].ImpactFactorJCR # None
          /\ out_df[i].IndexedInWoS = None

\* C15: with an empty impact table every row has impact factor None, quartile None
\* and the Web of Science flag False with wos_if_missing, None without; with an empty
\* indexing table every row has Indexed in Scopus = False
C15_EmptyTables ==
    Enriched =>
        \A i \in 1..Len(out_df) :
            /\ jcr = << >> =>
                  /\ out_df[i].ImpactFactorJCR = None
                  /\ out_df[i].QuartileJCR = None
                  /\ out_df[i].IndexedInWoS = (IF cfg.wos_if_missing THEN PyFalse ELSE None)
            /\ scopus = << >> => out_df[i].IndexedInScopus = PyFalse

\* the case of C15: an empty impact table, wos_if_missing off, a row whose name is in
\* the indexing table
C15_Witness ==
    /\ Enriched /\ jcr = << >> /\ ~cfg.wos_if_missing
    /\ \A i \in 1..Len(out_df) : out_df[i].IndexedInWoS = None
    /\ \E i \in 1..Len(out_df) : out_df[i].IndexedInScopus = PyTrue

----------------------------------------------------------------------------
(* Properties of the pool and of the two caches. *)

\* the resolutions in flight
InFlight == Cardinality({j \in 1..Len(futs) : Running(j)})

\* C16: for a batch of n >= 1 identifiers at most min(max_workers, n) resolutions
\* are in flight; the resolver is called once per identifier of the list, in list
\* order, and queries each endpoint at most once, also when the result is an error
C16_BoundedPoolNoRetry ==
    Len(dois) >= 1 =>
        /\ InFlight <= max_workers /\ InFlight <= Len(dois)
        /\ Len(futs) <= Len(dois)
        /\ \A i \in 1..Len(futs) :
              /\ futs[i].doi = dois[i]
              /\ futs[i].log \in {<< >>, <<"crossref">>, <<"crossref", "csl">>}
        /\ pc = "done" => Len(futs) = Len(dois) /\ Len(entries) = Len(dois)

\* the case of C16: the pool is full, a call waits, an earlier one ended in an error
C16_Witness ==
    /\ max_workers < Len(dois)
    /\ InFlight = max_workers
    /\ \E j \in 1..Len(futs) : futs[j].st = "queued"
    /\ \E j \in 1..Len(futs) : futs[j].st = "finished" /\ IsErrorDict(futs[j].result)

----------------------------------------------------------------------------
(* Properties of the readers. *)

\* C19: read_jcr raises and gives no table for a sheet of fewer than 17 columns; for
\* 17 columns or more it gives, for every row, the cells at the positions 1, 12 and
\* 16 (counted from 0) as journal, impact factor and quartile, whatever the headers,
\* and the normalized journal name
C19_JcrSchemaGate ==
    pc \in {"jcr_loaded", "jcr_raised"} =>
        IF Len(sheet.columns) < 17
        THEN pc = "jcr_raised" /\ loaded = Raise("ValueError")
        ELSE /\ pc = "jcr_loaded"
             /\ Len(loaded.table) = Len(sheet.rows)
             /\ \A r \in 1..Len(sheet.rows) :
                   loaded.table[r] = [Journal  |-> sheet.rows[r][2],
                                      Impact   |-> sheet.rows[r][13],
                                      Quartile |-> sheet.rows[r][17],
                                      norm     |-> normalize_journal(sheet.rows[r][2])]

\* the case of C19: a sheet of 16 columns with rows is refused
C19_Witness ==
    /\ pc = "jcr_raised"
    /\ Len(sheet.columns) = 16 /\ Len(sheet.rows) > 0
    /\ IsExc(loaded)

\* the keys of the preference list found among the headers
MatchingKeys(sh) ==
    {k \in 1..Len(_SCOPUS_TITLE_LIKELY) : _SCOPUS_TITLE_LIKELY[k] \in ColsKeys(sh)}

\* the column of the first key of the preference list found among the headers, else
\* the first text column, else the first column
PreferredColumn(sh) ==
    IF MatchingKeys(sh) # {}
    THEN ColsOfKey(sh, _SCOPUS_TITLE_LIKELY[Least(MatchingKeys(sh))])
    ELSE FallbackColumn(sh)

\* C20: the title column picked is the one of the first preferred name, in the order
\* of the preference list, that a header matches; without a match it is the first
\* text column, else the first column
C20_FixedPreference ==
    pc = "scopus_loaded" => loaded.title_col = PreferredColumn(sheet)

\* the case of C20: two headers are preferred names and the later name of the list
\* is picked
C20_Witness ==
    /\ pc = "scopus_loaded"
    /\ Cardinality(MatchingKeys(sheet)) > 1
    /\ loaded.title_col # PreferredColumn(sheet)

----------------------------------------------------------------------------
(* Properties of the two caches and of the frames merge_enrich_fast is given. *)

\* C17: a call of the resolver for an identifier that has a stored result returns
\* that result, resolved record or error record alike, and queries neither endpoint;
\* the stored results are keyed by identifiers and no load or expiry of the table
\* cache changes them
C17_CachedResult ==
    [][/\ \A i \in 1..Len(futs) :
             (futs[i].st = "lookup" /\ futs[i].doi \in DOMAIN cache /\ futs'[i].st # "lookup")
                 => /\ futs'[i].st = "finished"
                    /\ futs'[i].result = cache[futs[i].doi]
                    /\ futs'[i].log = << >>
       /\ tcache' # tcache => cache' = cache
       /\ DOMAIN cache' \subseteq Range(dois)]_vars

\* the case of C17: a call has returned a stored error record without a query, and
\* a table has been loaded into the table cache meanwhile
C17_Witness ==
    /\ tcache # << >>
    /\ \E i \in 1..Len(futs) :
          /\ futs[i].st \in {"finished", "collected"}
          /\ futs[i].log = << >>
          /\ IsErrorDict(futs[i].result)
          /\ futs[i].doi \in DOMAIN cache /\ cache[futs[i].doi] = futs[i].result

EnrichmentColumns == {"ImpactFactorJCR", "QuartileJCR", "IndexedInScopus", "IndexedInWoS"}

----------------------------------------------------------------------------
(* Properties of the fields _extract_fields_generic fills. *)

\* the call has returned a record, not an error dict
Resolved(i) ==
    Settled(i) /\ ~IsExc(futs[i].result) /\ ~IsErrorDict(futs[i].result)

\* C22: a record returned from the content-negotiation response has no citation
\* count, also when that response has an is-referenced-by-count field; a record
\* returned from the registry response has the count of that response
C22_CitationsOnlyFromRegistry ==
    \A i \in 1..Len(futs) :
        Resolved(i) =>
            /\ futs[i].log = <<"crossref", "csl">> => futs[i].result.Citations = None
            /\ futs[i].result.Citations # None => futs[i].log = <<"crossref">>
            /\ futs[i].log = <<"crossref">> =>
                 futs[i].result.Citations =
                    Get(_crossref_fetch_raw(futs[i].r1), "is-referenced-by-count", None)

\* the case of C22: the second endpoint answers with a count of 7 and its record is
\* returned
C22_Witness ==
    \E i \in 1..Len(futs) :
        /\ Resolved(i)
        /\ futs[i].log = <<"crossref", "csl">>
        /\ futs[i].r2 = Http(200, MsgFull)
        /\ Get(futs[i].r2.body, "is-referenced-by-count", None) = PyInt(7)
        /\ futs[i].result.Citations = None

----------------------------------------------------------------------------
(* Properties of the rows fetch_parallel builds from the futures. *)

\* the futures whose result has been made a row
Collected == {i \in 1..Len(futs) : futs[i].st = "collected" /\ ~IsExc(futs[i].result)}

\* the row of call i: its own identifier with its own result
OwnRow(i) == EntryOf(futs[i].doi, futs[i].result)[1]

\* C27: whatever the order in which the calls finish and are collected, the rows are,
\* one for one, the rows of the collected calls, each pairing the identifier of a call
\* with the result of that call
C27_RowPairsOwnResult ==
    /\ Len(entries) = Cardinality(Collected)
    /\ \A i \in Collected :
          Cardinality({k \in 1..Len(entries) : entries[k] = OwnRow(i)})
             = Cardinality({j \in Collected : OwnRow(j) = OwnRow(i)})

\* the case of C27: two identifiers, the second call collected first, one resolved
\* and one failed
C27_Witness ==
    /\ pc = "done" /\ resorted
    /\ Len(futs) = 2 /\ futs[1].doi # futs[2].doi
    /\ IsErrorDict(futs[1].result) /\ ~IsErrorDict(futs[2].result)
    /\ entries = <<OwnRow(1), OwnRow(2)>>

----------------------------------------------------------------------------
(* Properties of the impact-table row merge_enrich_fast attaches. *)

\* the score merge_enrich_fast compares with min_score, for a name and row k of the
\* impact table
Score(name, k) ==
    IF _USE_RAPIDFUZZ THEN WRatio(wratio, name, jcr[k].norm)
    ELSE DifflibScore(name, jcr[k].norm)

\* the largest of those scores over the impact table
TopScore(name) ==
    CHOOSE s \in {Score(name, k) : k \in 1..Len(jcr)} :
        \A k \in 1..Len(jcr) : Score(name, k) <= s

\* row k of the impact table is the row whose impact factor and quartile record i has
Attached(i, k) ==
    /\ out_df[i].ImpactFactorJCR = jcr[k].Impact
    /\ out_df[i].QuartileJCR = jcr[k].Quartile

\* record i has neither
Unmatched(i) == out_df[i].ImpactFactorJCR = None /\ out_df[i].QuartileJCR = None

\* the rule that singles out row k for a name: with rapidfuzz the first row of the
\* largest score; with difflib the first row of the name that is largest by
\* (ratio of the row's name against the name, row's name)
Ranked(name, k) ==
    IF _USE_RAPIDFUZZ
    THEN /\ \A j \in 1..Len(jcr) : Score(name, j) <= Score(name, k)
         /\ \A j \in 1..(k - 1) : Score(name, j) < Score(name, k)
    ELSE /\ \A j \in 1..Len(jcr) :
               ~PairLess(ratio(jcr[k].norm, name), jcr[k].norm,
                         ratio(jcr[j].norm, name), jcr[j].norm)
         /\ \A j \in 1..(k - 1) : jcr[j].norm # jcr[k].norm

\* C26 as stated: the row attached is the lowest row among those of the largest score
C26_LowestIndexOnTies ==
    Enriched =>
        \A i \in 1..Len(out_df) : \A k \in 1..Len(jcr) :
            Attached(i, k) =>
                /\ Score(q_norm[i], k) = TopScore(q_norm[i])
                /\ \A j \in 1..(k - 1) : Score(q_norm[i], j) < TopScore(q_norm[i])

\* C26: the row attached is a function of the batch, the table and the configuration:
\* exactly one row of a non-empty table is singled out for a name (with rapidfuzz the
\* lowest row of the largest score; with difflib the lowest row of the name
\* get_close_matches puts first, of tied names the greatest), and the record has that
\* row if its score reaches min_score and nothing otherwise
C26_RankedRowAttached ==
    Enriched /\ jcr # << >> =>
        \A i \in 1..Len(out_df) :
            /\ Cardinality({k \in 1..Len(jcr) : Ranked(q_norm[i], k)}) = 1
            /\ \A k \in 1..Len(jcr) :
                  Ranked(q_norm[i], k) =>
                      IF Score(q_norm[i], k) >= cfg.min_score
                         /\ (_USE_RAPIDFUZZ \/ q_norm[i] # << >>)
                      THEN Attached(i, k)
                      ELSE Unmatched(i)

\* the case of C26: without rapidfuzz "aaba" scores 66 against "ab" in row 1 and
\* against "ba" in row 2, and gets row 2
C26_Witness ==
    /\ Enriched /\ ~_USE_RAPIDFUZZ /\ Len(jcr) = 2
    /\ \E i \in 1..Len(out_df) :
          /\ Score(q_norm[i], 1) = Score(q_norm[i], 2)
          /\ jcr[1].norm # jcr[2].norm
          /\ Attached(i, 2)

\* C28: after merge_enrich_fast every record has either no impact factor and no
\* quartile, or the impact factor and the quartile of one impact-table row whose score
\* against the record's name is the largest of the table and at least min_score; and
\* its Web of Science flag is True only if it has such a row
C28_OneBestRow ==
    Enriched =>
        \A i \in 1..Len(out_df) :
            /\ \/ Unmatched(i)
               \/ \E k \in 1..Len(jcr) :
                     /\ Attached(i, k)
                     /\ Score(q_norm[i], k) = TopScore(q_norm[i])
                     /\ Score(q_norm[i], k) >= cfg.min_score
            /\ out_df[i].IndexedInWoS = PyTrue => ~Unmatched(i)

\* the case of C28: without rapidfuzz and with min_score 66, "aaba" gets the row of
\* "ab", which scores 66, from a table whose row "baaa" scores 75
C28_Witness ==
    /\ Enriched /\ ~_USE_RAPIDFUZZ /\ cfg.min_score = 66
    /\ \E i \in 1..Len(out_df) : \E k, j \in 1..Len(jcr) :
          /\ Attached(i, k)
          /\ Score(q_norm[i], k) = 66
          /\ Score(q_norm[i], j) = 75

----------------------------------------------------------------------------
(* Properties of normalize_journal. *)

\* the name has single spaces only, none of them first or last
SingleSpaced(s) ==
    /\ \A i \in 1..Len(s) : IsSpace(s[i]) => s[i] = " "
    /\ s # << >> => s[1] # " " /\ s[Len(s)] # " "
    /\ \A i \in 1..(Len(s) - 1) : ~(s[i] = " " /\ s[i + 1] = " ")

\* the cell is a name or a blank cell
IsName(x) == x.tag = "str" \/ x = None

\* C23: the result of normalize_journal is lowercase, has no "&" and none of
\* , . : ; ( ) [ ], has single spaces and no space first or last; applied to its own
\* result it changes nothing; the name of a batch row (line 1238) and the name of a
\* table row (lines 1070, 1093) get the same result; "IEEE Trans. on Computers" and
\* "ieee trans on computers" get the same result
C23_Canonical ==
    /\ \A k \in 1..Len(ret) :
          /\ \A i \in 1..Len(ret[k]) :
                /\ LowerChar(ret[k][i]) = ret[k][i]
                /\ ret[k][i] \notin JournalPunctuation \cup {"&"}
          /\ SingleSpaced(ret[k])
          /\ ret[k] = ret[1]
    /\ (pc = "normalize_journal" /\ IsName(arg)) => QueryNorm(arg) = normalize_journal(FillNa(arg))
    /\ (ret # << >> /\ arg \in {PyStr(IeeeTitled), PyStr(IeeePlain)}) => ret[1] = IeeePlain
    /\ (ret # << >> /\ arg.tag = "str") =>
          Cardinality({i \in 1..Len(arg.v) : arg.v[i] = "&"}) * 3
             <= Cardinality({i \in 1..Len(ret[1]) : ret[1][i] \in {"a", "n", "d"}})

\* the case of C23: "A&." becomes "aand" and stays so
C23_Witness ==
    /\ arg = PyStr(<<"A", "&", ".">>)
    /\ ret = <<<<"a", "a", "n", "d">>, <<"a", "a", "n", "d">>>>

----------------------------------------------------------------------------
(* Properties of the year _extract_fields_generic gives. *)

\* the date container holds a year: the first element of the first inner list of its
\* date-parts is there and is not null
HoldsYear(msg, key) ==
    /\ key \in DOMAIN msg.v
    /\ msg.v[key].tag = "dict"
    /\ "date-parts" \in DOMAIN msg.v[key].v
    /\ msg.v[key].v["date-parts"].tag = "list"
    /\ msg.v[key].v["date-parts"].v # << >>
    /\ msg.v[key].v["date-parts"].v[1].tag = "list"
    /\ msg.v[key].v["date-parts"].v[1].v # << >>
    /\ msg.v[key].v["date-parts"].v[1].v[1] # None

\* that year
YearHeld(msg, key) == msg.v[key].v["date-parts"].v[1].v[1]

\* the year of the first of the three containers that holds one, else the year parsed
\* from created.date-time, else None
YearInOrder(msg) ==
    IF \E k \in 1..Len(YearKeys) : HoldsYear(msg, YearKeys[k])
    THEN YearHeld(msg, YearKeys[CHOOSE k \in 1..Len(YearKeys) :
                                   /\ HoldsYear(msg, YearKeys[k])
                                   /\ \A j \in 1..(k - 1) : ~HoldsYear(msg, YearKeys[j])])
    ELSE CreatedYear(msg)

\* C24: the year is that of the first of published-print, issued, published-online
\* that holds one; if none does it is the integer of the first four characters of
\* created.date-time, None if that is no integer; and the extraction raises for no
\* message
C24_YearInOrder ==
    pc = "extracted" => ~IsExc(ret[1]) /\ ret[1].Year = YearInOrder(arg)

\* the case of C24: published-print has date-parts [[null]] and issued [[2020]]; the
\* year is not 2020
C24_Witness ==
    /\ pc = "extracted"
    /\ arg = DatedMsg(<<PyDict("date-parts" :> PyList(<<PyList(<<None>>)>>))>>,
                      <<PyDict("date-parts" :> PyList(<<PyList(<<PyInt(2020)>>)>>))>>,
                      << >>, << >>)
    /\ ~IsExc(ret[1])
    /\ ret[1].Year = None

----------------------------------------------------------------------------
(* Properties of the author string _format_authors gives. *)

\* the field of an author entry, stripped; "" when it is missing
Stripped(a, k) == IF k \in DOMAIN a.v THEN Strip(a.v[k].v) ELSE << >>

\* every field of every entry that is an object is a str
WellTyped(msg) ==
    ("author" \in DOMAIN msg.v /\ msg.v["author"].tag = "list") =>
        \A i \in 1..Len(msg.v["author"].v) :
            msg.v["author"].v[i].tag = "dict" =>
                \A k \in DOMAIN msg.v["author"].v[i].v : msg.v["author"].v[i].v[k].tag = "str"

\* a token of a given name as it is rendered
Initial(tok) == IF Len(tok) = 1 /\ tok[1] \in Letters THEN tok \o <<".">> ELSE tok

\* "Given Family": the tokens of the given name, the family name behind them; for an
\* entry with neither, its name, else its literal
Rendered(a) ==
    IF a.tag # "dict" THEN << >>
    ELSE IF Stripped(a, "given") # << >> \/ Stripped(a, "family") # << >>
    THEN Join(<<" ">>,
              [i \in 1..Len(Split(Stripped(a, "given"))) |->
                  Initial(Split(Stripped(a, "given"))[i])]
              \o (IF Stripped(a, "family") # << >> THEN <<Stripped(a, "family")>>
                  ELSE << >>))
    ELSE IF Stripped(a, "name") # << >> THEN Stripped(a, "name")
    ELSE Stripped(a, "literal")

\* the non-empty members of a list of strings, in order
RECURSIVE NonEmpty(_)
NonEmpty(names) ==
    IF names = << >> THEN << >>
    ELSE (IF Head(names) = << >> THEN << >> ELSE <<Head(names)>>) \o NonEmpty(Tail(names))

\* the author entries of a message
AuthorsOf(msg) ==
    IF "author" \in DOMAIN msg.v /\ msg.v["author"].tag = "list" THEN msg.v["author"].v
    ELSE << >>

\* C25: the author string is the rendered names of the entries, those that render
\* empty left out, in input order, joined with "; ": no separator first or last; every
\* single-letter alphabetic token of a given name has a period behind it
C25_AuthorsRendered ==
    (pc = "extracted" /\ WellTyped(arg)) =>
        /\ ~IsExc(ret[1])
        /\ ret[1].Authors =
              PyStr(Join(<<";", " ">>,
                         NonEmpty([i \in 1..Len(AuthorsOf(arg)) |-> Rendered(AuthorsOf(arg)[i])])))

\* the case of C25: given "J", family "Smith", then an entry with a literal only
C25_Witness ==
    /\ pc = "extracted"
    /\ AuthorsOf(arg) = <<AuthorEntry(<<PyStr(<<"J">>)>>, <<PyStr(Smith)>>, <<PyStr(Acme)>>, << >>),
                          AuthorEntry(<< >>, << >>, << >>, <<PyStr(Lit)>>)>>
    /\ ret[1].Authors = PyStr(<<"J", ".", " ">> \o Smith \o <<";", " ">> \o Lit)

----------------------------------------------------------------------------
(* C21: the retries of a GET. *)

\* attempt k got a response whose status is on the retry list
ListedStatus(k) == tries[k].net = "ok" /\ tries[k].status \in status_forcelist

\* attempt k got a response whose status is not on the retry list
OtherStatus(k) == tries[k].net = "ok" /\ tries[k].status \notin status_forcelist

\* attempt k got a response that asks to come back later, while retries remained
AskedToComeBack(k) ==
    /\ tries[k].net = "ok"
    /\ tries[k].retry_after
    /\ tries[k].status \in RETRY_AFTER_STATUS_CODES
    /\ k <= RetryTotal

\* attempt k was the last one and its response went back to the caller
ReturnedAt(k) ==
    /\ k = Len(tries)
    /\ got = Http(tries[k].status, BodyFor(arg.caller))

\* the request went on after attempt k
RetriedAfter(k) == k < Len(tries) \/ got = NoResponse

\* the request is made at most 1 + total times, and a listed status is retried
\* while retries remain
BoundedRetries ==
    /\ Len(tries) <= 1 + RetryTotal
    /\ \A k \in 1..Len(tries) : ListedStatus(k) /\ k <= RetryTotal => RetriedAfter(k)

\* once the retries have run out the failure reaches the caller: a failed
\* tier of the resolver, an exception out of the table loader
FailureReachesCaller ==
    pc = "got" /\ got.net = "error" =>
        /\ Len(tries) = 1 + RetryTotal
        /\ arg.caller = "crossref" => ret[1] = FallThrough
        /\ arg.caller = "csl" => ret[1] = Return(ErrorBothFailed(got.why))
        /\ arg.caller = "jcr" => ret[1] = Raise(got.why)

\* C21, as stated: every GET is attempted at most 1 + 4 times; a response with
\* status 429, 500, 502, 503 or 504 is retried while retries remain; a response
\* with any other status is not retried for its status; after the retries are
\* exhausted the failure reaches the caller
C21_OnlyListedRetried ==
    /\ BoundedRetries
    /\ \A k \in 1..Len(tries) : OtherStatus(k) => ReturnedAt(k)
    /\ FailureReachesCaller

\* C21, amended: every GET is attempted at most 1 + 4 times; a response with
\* status 429, 500, 502, 503 or 504 is retried while retries remain; so is,
\* while retries remain, a 413 that carries a Retry-After header; a response
\* with any other status is returned at once; after the retries are exhausted
\* the failure reaches the caller
C21_ListedOrAskedRetried ==
    /\ BoundedRetries
    /\ \A k \in 1..Len(tries) :
        /\ OtherStatus(k) /\ ~AskedToComeBack(k) => ReturnedAt(k)
        /\ OtherStatus(k) /\ AskedToComeBack(k) => RetriedAfter(k)
    /\ FailureReachesCaller

\* the table loader's request got a 413 with Retry-After, went on, used up its
\* retries on listed statuses and raised out of the loader
C21_Witness ==
    /\ pc = "got"
    /\ arg.caller = "jcr"
    /\ Len(tries) = 1 + RetryTotal
    /\ tries[1] = Answer(413, TRUE)
    /\ tries[Len(tries)] = Answer(500, FALSE)
    /\ ret = <<Raise("RetryError")>>

----------------------------------------------------------------------------
(* C29: the gate of the admin page. *)

\* the session's admin_ok is set and true
AdminOk(ss) == "admin_ok" \in DOMAIN ss /\ ss["admin_ok"]

\* the last run called load_tables or showed a table
TablesTouched == page.called \/ page.shown # << >>

\* C29: in every run of the page the users and login-history tables are read
\* and shown only if a non-empty ADMIN_PASS is configured and the session's
\* admin_ok is true; admin_ok starts false and is set only by an Unlock click,
\* to true exactly when the entered password equals ADMIN_PASS, so an Unlock
\* with a wrong password locks an unlocked session again and an empty
\* ADMIN_PASS never unlocks
C29_AdminGate ==
    /\ page = None => session_state = << >>
    /\ page # None =>
        /\ TablesTouched => Configured(page.secret) /\ AdminOk(session_state)
        /\ "admin_ok" \notin DOMAIN page.before /\ ~page.clicked => ~AdminOk(session_state)
        /\ "admin_ok" \in DOMAIN page.before /\ ~page.clicked => session_state = page.before
        /\ page.clicked /\ Configured(page.secret) =>
              /\ "admin_ok" \in DOMAIN session_state
              /\ session_state["admin_ok"] = (page.pw = page.secret)
        /\ ~Configured(page.secret) => session_state = page.before /\ ~TablesTouched

\* an unlocked session clicked Unlock with a wrong password: it is locked
\* again and the run stopped before the tables
C29_Witness ==
    /\ page # None
    /\ AdminOk(page.before)
    /\ page.clicked /\ Configured(page.secret) /\ page.pw # page.secret
    /\ ~AdminOk(session_state)
    /\ page.stop = "locked" /\ ~TablesTouched

====
